---- MODULE Spec2Model ----
(***************************************************************************)
(* A model of kazibee/gmail (src/src/index.ts): the batched summary        *)
(* fetcher listMessageSummaries, the MIME envelope builder                  *)
(* (buildRawEmail, buildRawEmailWithAttachments) and the message tree       *)
(* walker (extractBody).                                                    *)
(*                                                                         *)
(* Three specifications share the module:                                  *)
(*   Spec      one call of listMessageSummaries against a mailbox,          *)
(*   SpecBuild builds of raw messages while the millisecond clock runs,     *)
(*   SpecBody  extractBody applied to message part trees.                   *)
(***************************************************************************)
EXTENDS Integers, Sequences, FiniteSets, TLC

VARIABLES
    (* ---- listMessageSummaries: one call ---- *)
    pc,             \* where the call stands: "list", "loop", "await", "done", "failed"
    details,        \* the mailbox: message id -> what messages.get answers for it
    refs,           \* index.ts:241  the listed messages that carry an id
    i,              \* index.ts:246  the loop index
    batch,          \* index.ts:247  the current slice of refs
    slots,          \* the result array of Promise.all: filled slot -> summary
    nSettled,       \* how many promises of the current batch have fulfilled
    inflight,       \* indices (into refs) of the detail fetches issued and not answered
    summaries,      \* index.ts:244
    outcome,        \* the call's promise: [state: pending|fulfilled|rejected, value]
    issued,         \* history: every index a detail fetch was issued for
    answered,       \* history: every index whose detail fetch was answered (either way)
    batches,        \* history: the batches issued, each the sequence of its indices
    reordered,      \* history: some fetch was answered before one issued ahead of it
    (* ---- the MIME envelope builder ---- *)
    now,            \* the millisecond clock Date.now() reads
    last,           \* the build just made: its function, arguments and result
    stamps,         \* history: the clock reading and boundary token of each
                    \* multipart build made so far
    (* ---- the message tree walker ---- *)
    payload,        \* the payload of the message fetched: << >> (none yet, or
                    \* undefined) or <<root part>>
    walked,         \* whether a message was fetched and walked
    bodyText,       \* index.ts:670  what extractBody returned for payload
    (* ---- the attachment operations on a message: one call ---- *)
    partsPc,        \* where the call stands: "idle", "listed", "fetching",
                    \* "written", "failed"
    fullPayload,    \* index.ts:501, 543  res.data.payload: << >> or <<root part>>
    flat,           \* index.ts:501, 543  what flattenParts returned
    descriptors,    \* index.ts:502-510  what listAttachments returned
    wanted,         \* index.ts:534  the partId asked of downloadAttachmentPart
    fetches,        \* history: the attachment ids attachments.get was called with
    fetched,        \* index.ts:525  the bytes of the attachment fetched
    writes,         \* history: the byte strings written to the output path
    dlOutcome,      \* the promise of downloadAttachmentPart
    (* ---- the attachment resolvers: one call ---- *)
    rKind,          \* which resolver was called: "local" or "drive"
    rPc,            \* where the call stands: "idle", "exists", "read", "meta",
                    \* "content", "done", "failed"
    sources,        \* index.ts:794, 814  attachments, the list to resolve
    world,          \* what the file reader or Drive answers for each source
    rIdx,           \* the source the loop is at (1-based)
    rMeta,          \* index.ts:819  metaRes.data of the source the loop is at
    payloads,       \* index.ts:796, 816  payloads
    asked,          \* history: the sources a collaborator was asked about, in order
    rOutcome,       \* the call's promise
    (* ---- replyToMessage: one call ---- *)
    replyPc,        \* where the call stands: "idle", "get", "sent", "failed"
    replyArgs,      \* index.ts:367-368  messageId and body
    original,       \* index.ts:370  the message getMessage returned
    sentReply,      \* index.ts:380-383  what messages.send was called with
    (* ---- the senders with attachments: one call ---- *)
    call,           \* index.ts:317-323, 333-340, 441-447, 461-468  the function
                    \* called and its to, subject and body
    callPc,         \* where the call stands: "idle", "resolving", "calling",
                    \* "returned", "failed"
    calls           \* history: the external send and draft-create calls issued

sumVars == <<pc, details, refs, i, batch, slots, nSettled, inflight, summaries,
             outcome, issued, answered, batches, reordered>>

buildVars == <<now, last, stamps>>

walkVars == <<payload, walked, bodyText>>

partsVars == <<partsPc, fullPayload, flat, descriptors, wanted, fetches, fetched,
               writes, dlOutcome>>

resolveVars == <<rKind, rPc, sources, world, rIdx, rMeta, payloads, asked, rOutcome>>

replyVars == <<replyPc, replyArgs, original, sentReply>>

sendVars == <<call, callPc, calls>>

vars == <<sumVars, buildVars, walkVars, partsVars, resolveVars, replyVars, sendVars>>

\* What the actions of one operation leave alone: the variables of the others.
notSum == <<buildVars, walkVars, partsVars, resolveVars, replyVars, sendVars>>
notBuild == <<sumVars, walkVars, partsVars, resolveVars, replyVars, sendVars>>
notWalk == <<sumVars, buildVars, partsVars, resolveVars, replyVars, sendVars>>
notParts == <<sumVars, buildVars, walkVars, resolveVars, replyVars, sendVars>>
notResolve == <<sumVars, buildVars, walkVars, partsVars, replyVars, sendVars>>
notReply == <<sumVars, buildVars, walkVars, partsVars, resolveVars, sendVars>>
notSend == <<sumVars, walkVars, partsVars, replyVars>>

(***************************************************************************)
(* Bounds of the model.                                                    *)
(***************************************************************************)
MaxMsgs == 12       \* the listing holds at most this many messages
MaxAttachments == 2 \* a message is built with at most this many attachments
MaxBuilds == 2      \* at most this many messages are built in a run
ClockStart == 9     \* the clock reading a run starts at
MaxTicks == 1       \* the clock advances at most this many milliseconds in a run
MaxNodes == 4       \* a message part tree has at most this many parts
MaxSources == 2     \* a list of attachment sources to resolve has at most this many
MaxParts == 3       \* a message whose attachments are listed or downloaded has at
                    \* most this many parts

(***************************************************************************)
(* Values.  A string the code treats as opaque is a TLA+ string; undefined *)
(* (an absent field) is a value of its own, distinct from the empty string.*)
(***************************************************************************)
Undefined == "undefined"
EmptyStr == ""

Min(a, b) == IF a <= b THEN a ELSE b

\* The least element of a non-empty set of numbers.
Least(S) == CHOOSE p \in S : \A q \in S : p <= q

\* x ?? y
Coalesce(x, y) == IF x = Undefined THEN y ELSE x

MsgId(k) == "m" \o ToString(k)
ThreadIdOf(k) == "t" \o ToString(k)
SnippetOf(k) == "s" \o ToString(k)
FromOf(k) == "from" \o ToString(k)
SubjectOf(k) == "subj" \o ToString(k)
DateOf(k) == "date" \o ToString(k)

(***************************************************************************)
(* The mailbox.  Message k of a listing is ordinary (an id and a threadId  *)
(* in the listing, full metadata in its detail) or odd in one way.  Each   *)
(* summary is built from one reference and its detail alone, so one odd    *)
(* message per listing, at every position and of every kind, covers them.  *)
(***************************************************************************)
Oddities == {"noId", "noThread", "refSnippet", "bareDetail", "lowerHeaders",
             "bareNoThread", "bareRefSnippet"}

\* detail.data.payload?.headers: undefined, or a list of {name, value}.
NoHeaders == [defined |-> FALSE, list |-> << >>]
HeaderList(l) == [defined |-> TRUE, list |-> l]

\* Entry k of the response of messages.list.
ListedMessage(k, kind) ==
    [id       |-> IF kind = "noId" THEN Undefined ELSE MsgId(k),
     threadId |-> IF kind \in {"noThread", "bareNoThread"} THEN Undefined
                  ELSE ThreadIdOf(k),
     snippet  |-> IF kind \in {"refSnippet", "bareRefSnippet"} THEN SnippetOf(k)
                  ELSE Undefined]

\* The data of the response of messages.get (format: metadata) for message k.
DetailData(k, kind) ==
    CASE kind \in {"bareDetail", "bareNoThread", "bareRefSnippet"} ->
           [id |-> Undefined, threadId |-> Undefined, snippet |-> Undefined,
            headers |-> NoHeaders]
      [] kind = "lowerHeaders" ->
           [id |-> MsgId(k), threadId |-> ThreadIdOf(k), snippet |-> Undefined,
            headers |-> HeaderList(<< [name |-> "subject", value |-> SubjectOf(k)],
                                      [name |-> "FROM", value |-> FromOf(k)] >>)]
      [] OTHER ->
           [id |-> MsgId(k), threadId |-> ThreadIdOf(k), snippet |-> SnippetOf(k),
            headers |-> HeaderList(<< [name |-> "From", value |-> FromOf(k)],
                                      [name |-> "Subject", value |-> SubjectOf(k)],
                                      [name |-> "Date", value |-> DateOf(k)] >>)]

KindOf(kinds, k) == IF k \in DOMAIN kinds THEN kinds[k] ELSE "ordinary"

\* The listings of m messages drawn: all ordinary, or one message odd in one
\* way (position -> oddity).
OddChoices(m) == {<< >>} \cup {k :> kind : k \in 1..m, kind \in Oddities}

(***************************************************************************)
(* listMessageSummaries, index.ts:230-273.                                 *)
(***************************************************************************)
LIST_SUMMARY_BATCH_SIZE == 5

\* String.prototype.toLowerCase on the header names of the model.
LowerCase(name) ==
    CASE name \in {"From", "FROM", "from"} -> "from"
      [] name \in {"Subject", "SUBJECT", "subject"} -> "subject"
      [] name \in {"Date", "DATE", "date"} -> "date"
      [] OTHER -> name

\* index.ts:275-280.  find: the first header whose lower-cased name matches.
getHeaderValue(headers, name) ==
    IF ~headers.defined THEN EmptyStr
    ELSE LET hits == {h \in 1..Len(headers.list) :
                         LowerCase(headers.list[h].name) = LowerCase(name)}
         IN  IF hits = {} THEN EmptyStr
             ELSE LET first == CHOOSE h \in hits : \A g \in hits : h <= g
                  IN  Coalesce(headers.list[first].value, EmptyStr)

\* index.ts:241-243.  filter keeps the messages with a truthy id, in order.
RECURSIVE FilterWithId(_)
FilterWithId(msgs) ==
    IF msgs = << >> THEN << >>
    ELSE IF Head(msgs).id # Undefined /\ Head(msgs).id # EmptyStr
         THEN <<Head(msgs)>> \o FilterWithId(Tail(msgs))
         ELSE FilterWithId(Tail(msgs))

\* A mutation of BuildSummary: the values of the reference are not fallen back
\* to.
BuildSummaryDetailOnly(ref, data) ==
    [id       |-> Coalesce(data.id, ref.id),
     threadId |-> Coalesce(data.threadId, EmptyStr),
     from     |-> getHeaderValue(data.headers, "From"),
     subject  |-> getHeaderValue(data.headers, "Subject"),
     date     |-> getHeaderValue(data.headers, "Date"),
     snippet  |-> Coalesce(data.snippet, EmptyStr)]

\* index.ts:257-265.  The summary built from a reference and its detail.
BuildSummary(ref, data) ==
    [id       |-> Coalesce(data.id, ref.id),
     threadId |-> Coalesce(Coalesce(data.threadId, ref.threadId), EmptyStr),
     from     |-> getHeaderValue(data.headers, "From"),
     subject  |-> getHeaderValue(data.headers, "Subject"),
     date     |-> getHeaderValue(data.headers, "Date"),
     snippet  |-> Coalesce(Coalesce(data.snippet, ref.snippet), EmptyStr)]

\* A mutation of BatchIndices: the slice ends one reference early.
BatchIndicesShort(n, start) ==
    [p \in 1..(Min(start + LIST_SUMMARY_BATCH_SIZE - 1, n) - start) |-> start + p]

\* index.ts:247.  refs.slice(i, i + LIST_SUMMARY_BATCH_SIZE), as the indices
\* (1-based) of refs it holds; slice clamps its end to the length.
BatchIndices(n, start) ==
    [p \in 1..(Min(start + LIST_SUMMARY_BATCH_SIZE, n) - start) |-> start + p]

\* A mutation of PromiseAllSlot: results land in completion order (the callback
\* pushing its summary itself when its fetch answers).
CompletionOrderSlot(pos, settledBefore) == settledBefore + 1

\* index.ts:248.  Promise.all puts the value of the promise at position pos of
\* its argument in position pos of its result, whenever that promise settles
\* (settledBefore promises of the batch settled before it).
PromiseAllSlot(pos, settledBefore) == pos

\* A mutation of PromiseAllFulfilled: the join lets go at the first fulfilment
\* (Promise.race / Promise.any in place of Promise.all).
PromiseRaceFulfilled(b, s) == DOMAIN s # {}

\* index.ts:248.  Promise.all fulfils when every promise of the batch has.
PromiseAllFulfilled(b, s) == DOMAIN s = DOMAIN b

\* index.ts:248, 269.  batchSummaries: the filled slots in slot order.
ResultArray(s) ==
    LET filled == DOMAIN s
        Nth(q) == CHOOSE p \in filled : Cardinality({r \in filled : r < p}) = q - 1
    IN  [q \in 1..Cardinality(filled) |-> s[Nth(q)]]

Pending == [state |-> "pending", value |-> << >>]
Fulfilled(v) == [state |-> "fulfilled", value |-> v]
Rejected == [state |-> "rejected", value |-> << >>]

SumInit ==
    /\ pc = "list"
    /\ details = << >>
    /\ refs = << >>
    /\ i = 0
    /\ batch = << >>
    /\ slots = << >>
    /\ nSettled = 0
    /\ inflight = {}
    /\ summaries = << >>
    /\ outcome = Pending
    /\ issued = {}
    /\ answered = {}
    /\ batches = << >>
    /\ reordered = FALSE

\* index.ts:235-244.  messages.list answers with m messages.
ListResolve ==
    /\ pc = "list"
    /\ \E m \in 0..MaxMsgs : \E kinds \in OddChoices(m) :
         LET msgs == [k \in 1..m |-> ListedMessage(k, KindOf(kinds, k))]
         IN  /\ refs' = FilterWithId(msgs)
             /\ details' = [id \in {MsgId(k) : k \in 1..m} |->
                              LET k == CHOOSE j \in 1..m : MsgId(j) = id
                              IN  DetailData(k, KindOf(kinds, k))]
    /\ i' = 0
    /\ summaries' = << >>
    /\ pc' = "loop"
    /\ UNCHANGED <<batch, slots, nSettled, inflight, outcome, issued, answered, batches,
                   reordered>>

\* index.ts:235.  messages.list fails: the call rejects before any detail fetch.
ListReject ==
    /\ pc = "list"
    /\ pc' = "failed"
    /\ outcome' = Rejected
    /\ UNCHANGED <<details, refs, i, batch, slots, nSettled, inflight, summaries,
                   issued, answered, batches, reordered>>

\* index.ts:246-255.  The loop test passes: slice the batch and, in batch.map,
\* call the async callback for every reference, each running up to its await,
\* that is issuing its messages.get; then await Promise.all.
StartBatch ==
    /\ pc = "loop"
    /\ i < Len(refs)
    /\ batch' = BatchIndices(Len(refs), i)
    /\ slots' = << >>
    /\ nSettled' = 0
    /\ inflight' = inflight \cup {batch'[p] : p \in DOMAIN batch'}
    /\ issued' = issued \cup {batch'[p] : p \in DOMAIN batch'}
    /\ batches' = Append(batches, batch')
    /\ pc' = "await"
    /\ UNCHANGED <<details, refs, i, summaries, outcome, answered, reordered>>

\* index.ts:250-266.  The detail fetch of reference k answers: the callback
\* resumes and returns its summary, which Promise.all stores.  After the call
\* has failed the callback still runs, to no effect.
DetailResolve(k) ==
    /\ k \in inflight
    /\ inflight' = inflight \ {k}
    /\ answered' = answered \cup {k}
    /\ reordered' = (reordered \/ \E j \in inflight : j < k)
    /\ IF pc = "await"
       THEN LET pos == CHOOSE p \in DOMAIN batch : batch[p] = k
                slot == PromiseAllSlot(pos, nSettled)
            IN  /\ slots' = (slot :> BuildSummary(refs[k], details[refs[k].id])) @@ slots
                /\ nSettled' = nSettled + 1
       ELSE UNCHANGED <<slots, nSettled>>
    /\ UNCHANGED <<pc, details, refs, i, batch, summaries, outcome, issued, batches>>

\* A mutation of OnRejection: the rejection is set aside, as by
\* Promise.allSettled, and the loop goes on.
OnRejectionSettled(at) == IF at = "await" THEN "loop" ELSE at

\* index.ts:248.  Where a rejected fetch leaves the call: the await of
\* Promise.all throws out of the loop when the call stands at it; a call that
\* has failed already stays failed.
OnRejection(at) == IF at = "await" THEN "failed" ELSE at

\* index.ts:248-250.  The detail fetch of reference k fails: its promise
\* rejects, Promise.all rejects with it and so does the call.  The other
\* fetches of the batch stay in flight.
DetailReject(k) ==
    /\ k \in inflight
    /\ inflight' = inflight \ {k}
    /\ answered' = answered \cup {k}
    /\ pc' = OnRejection(pc)
    /\ outcome' = IF pc = "await" THEN Rejected ELSE outcome
    /\ UNCHANGED <<details, refs, i, batch, slots, nSettled, summaries, issued, batches,
                   reordered>>

\* index.ts:248, 269, 246.  Promise.all fulfilled: push the batch's summaries
\* in the order of its result and advance the loop index.
JoinBatch ==
    /\ pc = "await"
    /\ PromiseAllFulfilled(batch, slots)
    /\ summaries' = summaries \o ResultArray(slots)
    /\ i' = i + LIST_SUMMARY_BATCH_SIZE
    /\ pc' = "loop"
    /\ UNCHANGED <<details, refs, batch, slots, nSettled, inflight, outcome, issued,
                   answered, batches, reordered>>

\* index.ts:246, 272.  The loop test fails: return summaries.
Return ==
    /\ pc = "loop"
    /\ i >= Len(refs)
    /\ pc' = "done"
    /\ outcome' = Fulfilled(summaries)
    /\ UNCHANGED <<details, refs, i, batch, slots, nSettled, inflight, summaries,
                   issued, answered, batches, reordered>>

(***************************************************************************)
(* Text.  A string the code builds or takes apart is the sequence of its    *)
(* characters, each a one-character TLA+ string.  The characters are ASCII  *)
(* (the printable ones, CR and LF), which UTF-8 encodes as one byte each.   *)
(* The grave accent, which a TLA+ string cannot hold, is written "grave".   *)
(***************************************************************************)
Printable ==
    <<" ", "!", "\"", "#", "$", "%", "&", "'", "(", ")", "*", "+", ",", "-",
      ".", "/", "0", "1", "2", "3", "4", "5", "6", "7", "8", "9", ":", ";",
      "<", "=", ">", "?", "@", "A", "B", "C", "D", "E", "F", "G", "H", "I",
      "J", "K", "L", "M", "N", "O", "P", "Q", "R", "S", "T", "U", "V", "W",
      "X", "Y", "Z", "[", "\\", "]", "^", "_", "grave", "a", "b", "c", "d", "e",
      "f", "g", "h", "i", "j", "k", "l", "m", "n", "o", "p", "q", "r", "s",
      "t", "u", "v", "w", "x", "y", "z", "{", "|", "}", "~">>

CR == "\r"
LF == "\n"
DQUOTE == "\""

Chars == {Printable[c] : c \in 1..Len(Printable)} \cup {CR, LF}

\* Buffer.from(text): the UTF-8 byte of an ASCII character, and back.
CharCode == [c \in Chars |->
               IF c = CR THEN 13
               ELSE IF c = LF THEN 10
               ELSE 31 + (CHOOSE k \in 1..Len(Printable) : Printable[k] = c)]
CharOfCode(b) == IF b = 13 THEN CR ELSE IF b = 10 THEN LF ELSE Printable[b - 31]

Utf8Bytes(text) == [k \in 1..Len(text) |-> CharCode[text[k]]]
Utf8Text(bytes) == [k \in 1..Len(bytes) |-> CharOfCode(bytes[k])]

Base64Alphabet ==
    <<"A", "B", "C", "D", "E", "F", "G", "H", "I", "J", "K", "L", "M", "N",
      "O", "P", "Q", "R", "S", "T", "U", "V", "W", "X", "Y", "Z", "a", "b",
      "c", "d", "e", "f", "g", "h", "i", "j", "k", "l", "m", "n", "o", "p",
      "q", "r", "s", "t", "u", "v", "w", "x", "y", "z", "0", "1", "2", "3",
      "4", "5", "6", "7", "8", "9", "+", "/">>
Base64UrlAlphabet ==
    <<"A", "B", "C", "D", "E", "F", "G", "H", "I", "J", "K", "L", "M", "N",
      "O", "P", "Q", "R", "S", "T", "U", "V", "W", "X", "Y", "Z", "a", "b",
      "c", "d", "e", "f", "g", "h", "i", "j", "k", "l", "m", "n", "o", "p",
      "q", "r", "s", "t", "u", "v", "w", "x", "y", "z", "0", "1", "2", "3",
      "4", "5", "6", "7", "8", "9", "-", "_">>

\* Buffer.toString('base64' | 'base64url'): three bytes make four characters
\* of the alphabet; 'base64' pads the last group with '=', 'base64url' does not.
Base64Of(bytes, alphabet, padded) ==
    LET n == Len(bytes)
        groups == (n + 2) \div 3
        B(j) == IF j <= n THEN bytes[j] ELSE 0
        Group(g) == B(3 * g - 2) * 65536 + B(3 * g - 1) * 256 + B(3 * g)
        Sextet(k) == (Group((k - 1) \div 4 + 1) \div (64 ^ (3 - ((k - 1) % 4)))) % 64
        nChars == (8 * n + 5) \div 6
    IN  [k \in 1..(IF padded THEN 4 * groups ELSE nChars) |->
            IF k <= nChars THEN alphabet[Sextet(k) + 1] ELSE "="]

toBase64(bytes) == Base64Of(bytes, Base64Alphabet, TRUE)
toBase64Url(bytes) == Base64Of(bytes, Base64UrlAlphabet, FALSE)

\* Buffer.from(text, 'base64url'): what a recipient of the raw message decodes.
Base64UrlValue == [c \in {Base64UrlAlphabet[k] : k \in 1..64} |->
                     (CHOOSE k \in 1..64 : Base64UrlAlphabet[k] = c) - 1]
fromBase64Url(text) ==
    LET n == Len(text)
        nBytes == (6 * n) \div 8
        V(k) == IF k <= n THEN Base64UrlValue[text[k]] ELSE 0
        Group(g) == V(4 * g - 3) * 262144 + V(4 * g - 2) * 4096 + V(4 * g - 1) * 64 + V(4 * g)
    IN  [j \in 1..nBytes |->
            (Group((j - 1) \div 3 + 1) \div (256 ^ (2 - ((j - 1) % 3)))) % 256]

\* Array.prototype.join.
RECURSIVE Join(_, _)
Join(list, sep) ==
    IF list = << >> THEN << >>
    ELSE IF Len(list) = 1 THEN list[1]
    ELSE list[1] \o sep \o Join(Tail(list), sep)

\* The concatenation of a list of strings: join('').
RECURSIVE Concat(_)
Concat(list) == IF list = << >> THEN << >> ELSE Head(list) \o Concat(Tail(list))

\* String(n) of a number n >= 0, as in a template literal.
RECURSIVE Decimal(_)
Decimal(n) ==
    LET digit == <<Printable[17 + (n % 10)]>>
    IN  IF n < 10 THEN digit ELSE Decimal(n \div 10) \o digit

\* The literals of the builder.
CRLF == <<"\r", "\n">>
S_To == <<"T", "o", ":", " ">>
S_Subject == <<"S", "u", "b", "j", "e", "c", "t", ":", " ">>
S_MimeVersion ==
    <<"M", "I", "M", "E", "-", "V", "e", "r", "s", "i", "o", "n", ":", " ",
      "1", ".", "0">>
S_ContentType ==
    <<"C", "o", "n", "t", "e", "n", "t", "-", "T", "y", "p", "e", ":", " ">>
S_Charset ==
    <<";", " ", "c", "h", "a", "r", "s", "e", "t", "=", "\"", "U", "T", "F",
      "-", "8", "\"">>
S_ColonSpace == <<":", " ">>
S_TextPlain == <<"t", "e", "x", "t", "/", "p", "l", "a", "i", "n">>
S_TextHtml == <<"t", "e", "x", "t", "/", "h", "t", "m", "l">>
S_BoundaryPrefix ==
    <<"g", "m", "a", "i", "l", "_", "t", "o", "o", "l", "_", "b", "o", "u",
      "n", "d", "a", "r", "y", "_">>
S_MultipartMixed ==
    <<"m", "u", "l", "t", "i", "p", "a", "r", "t", "/", "m", "i", "x", "e",
      "d", ";", " ", "b", "o", "u", "n", "d", "a", "r", "y", "=", "\"">>
S_Quote == <<"\"">>
S_DashDash == <<"-", "-">>
S_Encoding7bit ==
    <<"C", "o", "n", "t", "e", "n", "t", "-", "T", "r", "a", "n", "s", "f",
      "e", "r", "-", "E", "n", "c", "o", "d", "i", "n", "g", ":", " ", "7",
      "b", "i", "t">>
S_Name == <<";", " ", "n", "a", "m", "e", "=", "\"">>
S_Disposition ==
    <<"C", "o", "n", "t", "e", "n", "t", "-", "D", "i", "s", "p", "o", "s",
      "i", "t", "i", "o", "n", ":", " ", "a", "t", "t", "a", "c", "h", "m",
      "e", "n", "t", ";", " ", "f", "i", "l", "e", "n", "a", "m", "e", "=",
      "\"">>
S_EncodingBase64 ==
    <<"C", "o", "n", "t", "e", "n", "t", "-", "T", "r", "a", "n", "s", "f",
      "e", "r", "-", "E", "n", "c", "o", "d", "i", "n", "g", ":", " ", "b",
      "a", "s", "e", "6", "4">>

(***************************************************************************)
(* The MIME envelope builder, index.ts:592-657 and 853-855.                *)
(***************************************************************************)
\* A mutation of sanitizeHeaderValue: the pattern without its g flag replaces
\* the first match only.
sanitizeFirstOnly(value) ==
    LET bad == {k \in 1..Len(value) : value[k] \in {CR, LF, DQUOTE}}
    IN  [k \in 1..Len(value) |->
            IF k \in bad /\ \A j \in bad : k <= j THEN "_" ELSE value[k]]

\* index.ts:853-855.  value.replace(/[\r\n"]/g, '_')
sanitizeHeaderValue(value) ==
    [k \in 1..Len(value) |-> IF value[k] \in {CR, LF, DQUOTE} THEN "_" ELSE value[k]]

\* A mutation of WrapLines: the pattern counts 77 characters to a line.
RECURSIVE WrapLines77(_)
WrapLines77(data) ==
    IF Len(data) < 77 THEN data
    ELSE SubSeq(data, 1, 77) \o CRLF \o WrapLines77(SubSeq(data, 78, Len(data)))

\* index.ts:643.  data.replace(/(.{76})/g, '$1\r\n'): scanning from the left,
\* every run of 76 characters none of which ends a line gets CR LF after it.
RECURSIVE WrapLines(_)
WrapLines(data) ==
    IF Len(data) < 76 THEN data
    ELSE LET stops == {k \in 1..76 : data[k] \in {CR, LF}}
         IN  IF stops = {}
             THEN SubSeq(data, 1, 76) \o CRLF \o WrapLines(SubSeq(data, 77, Len(data)))
             ELSE LET q == CHOOSE k \in stops : \A j \in stops : j <= k
                  IN  SubSeq(data, 1, q) \o WrapLines(SubSeq(data, q + 1, Len(data)))

\* index.ts:599-612.  The text of a single-part message.
PlainEmail(to, subject, body, contentType, extraHeaders) ==
    LET headers == << S_To \o to,
                      S_Subject \o subject,
                      S_MimeVersion,
                      S_ContentType \o contentType \o S_Charset >>
                   \o [h \in 1..Len(extraHeaders) |->
                         extraHeaders[h].key \o S_ColonSpace \o extraHeaders[h].value]
    IN  Join(headers, CRLF) \o CRLF \o CRLF \o body

\* index.ts:592-614.
buildRawEmail(to, subject, body, contentType, extraHeaders) ==
    toBase64Url(Utf8Bytes(PlainEmail(to, subject, body, contentType, extraHeaders)))

\* A mutation of BoundaryToken: the token leaves the clock out.
BoundaryTokenFixed(t) == S_BoundaryPrefix

\* index.ts:626.  `gmail_tool_boundary_${Date.now()}`
BoundaryToken(t) == S_BoundaryPrefix \o Decimal(t)

\* index.ts:635-640.  The part that carries the text body.
BodyPart(boundary, body) ==
    S_DashDash \o boundary \o CRLF
    \o S_ContentType \o S_TextPlain \o S_Charset \o CRLF
    \o S_Encoding7bit \o CRLF \o CRLF
    \o body \o CRLF

\* index.ts:643-651.  The part that carries one attachment.
AttachmentPart(boundary, attachment) ==
    S_DashDash \o boundary \o CRLF
    \o S_ContentType \o attachment.mimeType
       \o S_Name \o sanitizeHeaderValue(attachment.filename) \o S_Quote \o CRLF
    \o S_Disposition \o sanitizeHeaderValue(attachment.filename) \o S_Quote \o CRLF
    \o S_EncodingBase64 \o CRLF \o CRLF
    \o WrapLines(attachment.base64Data) \o CRLF

\* index.ts:634-654.  parts: the body part, a part per attachment in list
\* order, the closing delimiter.
MessageParts(boundary, body, attachments) ==
    <<BodyPart(boundary, body)>>
    \o [a \in 1..Len(attachments) |-> AttachmentPart(boundary, attachments[a])]
    \o <<S_DashDash \o boundary \o S_DashDash>>

\* index.ts:626-656.  The multipart path; clock is what Date.now() returns.
buildMultipart(to, subject, body, attachments, clock) ==
    LET boundary == BoundaryToken(clock)
        headers == << S_To \o to,
                      S_Subject \o subject,
                      S_MimeVersion,
                      S_ContentType \o S_MultipartMixed \o boundary \o S_Quote >>
        email == Join(headers, CRLF) \o CRLF \o CRLF
                 \o Concat(MessageParts(boundary, body, attachments))
    IN  toBase64Url(Utf8Bytes(email))

\* A mutation of buildRawEmailWithAttachments: the early return for an empty
\* attachment list is left out.
buildWithoutEarlyReturn(to, subject, body, attachments, clock) ==
    buildMultipart(to, subject, body, attachments, clock)

\* index.ts:616-657.
buildRawEmailWithAttachments(to, subject, body, attachments, clock) ==
    IF Len(attachments) = 0
    THEN buildRawEmail(to, subject, body, S_TextPlain, << >>)
    ELSE buildMultipart(to, subject, body, attachments, clock)

(***************************************************************************)
(* The arguments the builds of the model are made with.                    *)
(***************************************************************************)
T_AddressA == <<"a", "@", "x", ".", "c", "o", "m">>
T_AddressB == <<"b", "@", "y", ".", "o", "r", "g">>
T_Hi == <<"H", "i">>
T_BodyText == <<"b", "o", "d", "y", " ", "t", "e", "x", "t">>
T_TwoLines ==
    <<"l", "i", "n", "e", " ", "o", "n", "e", "\r", "\n", "l", "i", "n", "e",
      " ", "t", "w", "o">>
T_HtmlPartHead ==
    <<"C", "o", "n", "t", "e", "n", "t", "-", "T", "y", "p", "e", ":", " ",
      "t", "e", "x", "t", "/", "h", "t", "m", "l">>
T_Smuggled ==
    <<"<", "b", ">", "s", "m", "u", "g", "g", "l", "e", "d", "<", "/", "b",
      ">">>
F_Plain == <<"a", ".", "t", "x", "t">>
F_Quoted == <<"q", "\"", ".", "p", "d", "f">>
F_Inject ==
    <<"x", "\"", "\r", "\n", "B", "c", "c", ":", " ", "e", "@", "x", ".",
      "c", "o", "m">>
M_Pdf ==
    <<"a", "p", "p", "l", "i", "c", "a", "t", "i", "o", "n", "/", "p", "d",
      "f">>
M_Png == <<"i", "m", "a", "g", "e", "/", "p", "n", "g">>

\* A body that holds a line equal to the delimiter of a build made at clock
\* reading t, followed by a part of its own.
BodyWithDelimiter(t) ==
    T_BodyText \o CRLF \o S_DashDash \o BoundaryToken(t) \o CRLF
    \o T_HtmlPartHead \o CRLF \o CRLF \o T_Smuggled

\* The (to, subject, body) triples.
Letters ==
    { [to |-> T_AddressA, subject |-> T_Hi, body |-> T_BodyText],
      [to |-> T_AddressB, subject |-> << >>, body |-> << >>],
      [to |-> T_AddressA, subject |-> T_Hi, body |-> T_TwoLines],
      [to |-> T_AddressB, subject |-> T_Hi, body |-> BodyWithDelimiter(ClockStart)] }

\* The content of a file of n bytes.
FileBytes(n) == [k \in 1..n |-> (37 * k + 11) % 256]

\* index.ts:181-185.  AttachmentPayload: a filename, a MIME type and the
\* base64 (index.ts:806, 845) of the file's bytes.  The payloads are 0, 76 and
\* 156 characters long: no line, one full line, two full lines and a rest.
Payloads ==
    { [filename |-> F_Plain, mimeType |-> S_TextPlain, base64Data |-> toBase64(FileBytes(0))],
      [filename |-> F_Quoted, mimeType |-> M_Pdf, base64Data |-> toBase64(FileBytes(57))],
      [filename |-> F_Inject, mimeType |-> M_Png, base64Data |-> toBase64(FileBytes(115))] }

AttachmentLists == UNION { [1..n -> Payloads] : n \in 0..MaxAttachments }

(***************************************************************************)
(* Builds.  A caller builds a message (Build...), hands it on (Deliver),    *)
(* and the clock ticks in between as it likes.                             *)
(***************************************************************************)
NoBuild == [fn |-> "none", to |-> << >>, subject |-> << >>, body |-> << >>,
            contentType |-> << >>, attachments |-> << >>, raw |-> << >>]

BuildInit ==
    /\ now = ClockStart
    /\ last = NoBuild
    /\ stamps = << >>

\* A millisecond passes.
Tick ==
    /\ now < ClockStart + MaxTicks
    /\ now' = now + 1
    /\ UNCHANGED <<last, stamps>>

\* index.ts:309, 357, 429.  sendMessage, sendHtmlMessage, createDraft build
\* their raw message with buildRawEmail.
BuildPlain ==
    /\ last.fn = "none"
    /\ \E l \in Letters : \E contentType \in {S_TextPlain, S_TextHtml} :
         last' = [fn |-> "buildRawEmail", to |-> l.to, subject |-> l.subject,
                  body |-> l.body, contentType |-> contentType,
                  attachments |-> << >>,
                  raw |-> buildRawEmail(l.to, l.subject, l.body, contentType, << >>)]
    /\ UNCHANGED <<now, stamps>>

\* index.ts:325, 343, 449, 471.  The ...WithAttachments functions build theirs
\* with buildRawEmailWithAttachments, which reads the clock when the list is
\* not empty.
BuildWithAttachments ==
    /\ last.fn = "none"
    /\ Len(stamps) < MaxBuilds
    /\ \E l \in Letters : \E attachments \in AttachmentLists :
         /\ last' = [fn |-> "buildRawEmailWithAttachments", to |-> l.to,
                     subject |-> l.subject, body |-> l.body,
                     contentType |-> << >>, attachments |-> attachments,
                     raw |-> buildRawEmailWithAttachments(l.to, l.subject, l.body,
                                                          attachments, now)]
         /\ stamps' = IF Len(attachments) = 0 THEN stamps
                      ELSE Append(stamps, [at |-> now, token |-> BoundaryToken(now)])
    /\ UNCHANGED now

\* The caller passes the raw message on (messages.send, drafts.create).
Deliver ==
    /\ last.fn # "none"
    /\ last' = NoBuild
    /\ UNCHANGED <<now, stamps>>

(***************************************************************************)
(* The message tree walker, index.ts:691-718 (gmail-client.ts:574-601 is the *)
(* same function).  A part is [mimeType, data, parts]: data is body.data,   *)
(* Absent when the part has none, and parts its children (none: << >>).     *)
(***************************************************************************)
Absent == <<Undefined>>
M_DotPdf == <<".", "p", "d", "f">>
M_Mixed == <<"m", "u", "l", "t", "i", "p", "a", "r", "t", "/", "m", "i", "x", "e", "d">>

\* A value is truthy: defined and not the empty string.
Truthy(x) == x # Absent /\ x # << >>

\* Buffer.from(data, 'base64url').toString('utf-8')
DecodeData(data) == Utf8Text(fromBase64Url(data))

RECURSIVE extractBody(_), FirstNested(_), FirstNestedPlaceholder(_)

\* A mutation of extractBody: text/html is looked for before text/plain.
extractBodyHtmlFirst(pl) ==
    IF pl = << >> THEN << >>
    ELSE LET part == pl[1]
             parts == part.parts
             html == {k \in 1..Len(parts) : parts[k].mimeType = S_TextHtml}
             plain == {k \in 1..Len(parts) : parts[k].mimeType = S_TextPlain}
         IN  IF Truthy(part.data) THEN DecodeData(part.data)
             ELSE IF html # {} /\ Truthy(parts[Least(html)].data)
                  THEN DecodeData(parts[Least(html)].data)
             ELSE IF plain # {} /\ Truthy(parts[Least(plain)].data)
                  THEN DecodeData(parts[Least(plain)].data)
             ELSE FirstNested(parts)

\* index.ts:691-718.  pl is the optional payload: << >> or <<part>>.
extractBody(pl) ==
    IF pl = << >> THEN << >>
    ELSE LET part == pl[1]
             parts == part.parts
             \* find: the first part of the type, whether it has data or not
             plain == {k \in 1..Len(parts) : parts[k].mimeType = S_TextPlain}
             html == {k \in 1..Len(parts) : parts[k].mimeType = S_TextHtml}
         IN  IF Truthy(part.data) THEN DecodeData(part.data)
             ELSE IF plain # {} /\ Truthy(parts[Least(plain)].data)
                  THEN DecodeData(parts[Least(plain)].data)
             ELSE IF html # {} /\ Truthy(parts[Least(html)].data)
                  THEN DecodeData(parts[Least(html)].data)
             ELSE FirstNested(parts)

\* A mutation of FirstNested: a placeholder, not the empty string, when no part
\* yields a text.
FirstNestedPlaceholder(parts) ==
    IF parts = << >> THEN <<"?">>
    ELSE LET nested == extractBody(<<Head(parts)>>)
         IN  IF nested # << >> THEN nested ELSE FirstNestedPlaceholder(Tail(parts))

\* index.ts:712-717.  The first non-empty result of extractBody over the
\* parts, in order; the empty string when there is none.
FirstNested(parts) ==
    IF parts = << >> THEN << >>
    ELSE LET nested == extractBody(<<Head(parts)>>)
         IN  IF nested # << >> THEN nested ELSE FirstNested(Tail(parts))

(***************************************************************************)
(* The part trees walked: every tree of at most MaxNodes parts, each part   *)
(* text/plain, text/html or multipart/mixed, with data or without, or       *)
(* text/plain with the empty string for data.  The data of a part is the    *)
(* base64url of a text that names the part's place in the tree.            *)
(***************************************************************************)
PartKinds ==
    {[mimeType |-> m, data |-> d, filename |-> "empty", attachmentId |-> "absent"] :
         m \in {S_TextPlain, S_TextHtml, M_Mixed}, d \in {"text", "absent"}}
    \cup {[mimeType |-> S_TextPlain, data |-> "empty", filename |-> "empty",
           attachmentId |-> "absent"]}

\* The kinds of part of a message with attachments: a container, a text body,
\* a file with its data inline, a file whose data is held apart under an
\* attachment id, with a filename or without, a part with a filename and
\* nothing else, a part with no filename field at all, and a file with both
\* data and an attachment id.
AttachmentKinds ==
    {[mimeType |-> M_Mixed, data |-> "absent", filename |-> "empty", attachmentId |-> "absent"],
     [mimeType |-> S_TextPlain, data |-> "text", filename |-> "empty", attachmentId |-> "absent"],
     [mimeType |-> M_Pdf, data |-> "text", filename |-> "text", attachmentId |-> "absent"],
     [mimeType |-> M_Pdf, data |-> "absent", filename |-> "text", attachmentId |-> "text"],
     [mimeType |-> M_Png, data |-> "absent", filename |-> "empty", attachmentId |-> "text"],
     [mimeType |-> M_Png, data |-> "absent", filename |-> "text", attachmentId |-> "absent"],
     [mimeType |-> M_Mixed, data |-> "absent", filename |-> "absent", attachmentId |-> "absent"],
     [mimeType |-> M_Png, data |-> "text", filename |-> "text", attachmentId |-> "text"]}

\* The text of the part at path (the child indices from the root down).
RECURSIVE TextAt(_)
TextAt(path) ==
    IF path = << >> THEN <<"p">>
    ELSE TextAt(SubSeq(path, 1, Len(path) - 1)) \o <<".">> \o Decimal(path[Len(path)])

\* The partId Gmail gives the part at path: the empty string for the root,
\* "0", "1", ... for its children, "0.0", "0.1", ... for theirs.
RECURSIVE PartIdAt(_)
PartIdAt(path) ==
    IF path = << >> THEN << >>
    ELSE IF Len(path) = 1 THEN Decimal(path[1] - 1)
    ELSE PartIdAt(SubSeq(path, 1, Len(path) - 1)) \o <<".">>
         \o Decimal(path[Len(path)] - 1)

\* The content attachments.get answers with, for every attachment id.
FetchedText == <<"%", "P", "D", "F", "-", "1", ".", "7", " ", "h", "e", "l", "d", " ", "a", "p", "a", "r", "t">>

\* The attachment id of the part at path.
AttachmentIdAt(path) == <<"A", "N", "G", "j", "d", "J">> \o TextAt(path)

\* The members of a set of numbers in ascending order.
RECURSIVE Ascending(_)
Ascending(S) == IF S = {} THEN << >> ELSE <<Least(S)>> \o Ascending(S \ {Least(S)})

\* A tree of n parts is drawn as the kind of each part and the parent of each
\* part but the first, a part of a lower number; the children of a part are
\* in the order of their numbers.  PartTree is part k of that tree, at path.
ParentsOf(n) == {p \in [2..n -> 1..n] : \A j \in 2..n : p[j] < j}

RECURSIVE PartTree(_, _, _, _)
PartTree(kinds, parent, k, path) ==
    LET children == Ascending({j \in DOMAIN parent : parent[j] = k})
    IN  [partId   |-> PartIdAt(path),
         mimeType |-> kinds[k].mimeType,
         filename |-> CASE kinds[k].filename = "text" -> TextAt(path) \o M_DotPdf
                        [] kinds[k].filename = "empty" -> << >>
                        [] OTHER -> Absent,
         data     |-> CASE kinds[k].data = "text" -> toBase64Url(Utf8Bytes(TextAt(path)))
                        [] kinds[k].data = "empty" -> << >>
                        [] OTHER -> Absent,
         attachmentId |-> IF kinds[k].attachmentId = "text" THEN AttachmentIdAt(path)
                          ELSE Absent,
         size     |-> CASE kinds[k].data = "text" -> Len(TextAt(path))
                        [] kinds[k].attachmentId = "text" -> Len(FetchedText)
                        [] OTHER -> 0,
         parts    |-> [c \in 1..Len(children) |->
                          PartTree(kinds, parent, children[c], path \o <<c>>)]]

WalkInit ==
    /\ payload = << >>
    /\ walked = FALSE
    /\ bodyText = << >>

\* index.ts:292-299, 659-673.  getMessage fetches a message and mapMessage
\* takes its body from the payload, which the response may lack.
GetMessage ==
    /\ ~walked
    /\ \/ /\ payload' = << >>
          /\ bodyText' = extractBody(<< >>)
       \/ \E n \in 1..MaxNodes : \E kinds \in [1..n -> PartKinds] :
            \E parent \in ParentsOf(n) :
               LET pl == <<PartTree(kinds, parent, 1, << >>)>>
               IN  /\ payload' = pl
                   /\ bodyText' = extractBody(pl)
    /\ walked' = TRUE

(***************************************************************************)
(* The attachment operations on a message, index.ts:494-559, 675-689.      *)
(***************************************************************************)
M_OctetStream == <<"a", "p", "p", "l", "i", "c", "a", "t", "i", "o", "n", "/", "o", "c", "t", "e", "t", "-", "s", "t", "r", "e", "a", "m">>

\* x ?? y for a text.
OrElse(x, y) == IF x = Absent THEN y ELSE x

\* A mutation of FlattenLoop: the children of the part popped take the place of
\* the stack.
RECURSIVE FlattenLoopChildrenOnly(_, _)
FlattenLoopChildrenOnly(stack, out) ==
    IF stack = << >> THEN out
    ELSE LET part == stack[Len(stack)]
         IN  FlattenLoopChildrenOnly(part.parts, Append(out, part))

\* index.ts:680-686.  While the stack holds a part: pop the last, append it to
\* out, push its children in order.
RECURSIVE FlattenLoop(_, _)
FlattenLoop(stack, out) ==
    IF stack = << >> THEN out
    ELSE LET part == stack[Len(stack)]
             rest == SubSeq(stack, 1, Len(stack) - 1)
         IN  FlattenLoop(rest \o part.parts, Append(out, part))

\* index.ts:675-689.  pl is the optional payload: << >> or <<part>>.
flattenParts(pl) == IF pl = << >> THEN << >> ELSE FlattenLoop(pl, << >>)

\* A mutation of IsAttachment: a filename and an attachment id are both asked for.
IsAttachmentBoth(part) == Truthy(part.filename) /\ Truthy(part.attachmentId)

\* index.ts:503.  !!part.filename || !!part.body?.attachmentId
IsAttachment(part) == Truthy(part.filename) \/ Truthy(part.attachmentId)

\* index.ts:504-510.
AttachmentSummary(part) ==
    [partId       |-> OrElse(part.partId, << >>),
     attachmentId |-> part.attachmentId,
     filename     |-> OrElse(part.filename, << >>),
     mimeType     |-> OrElse(part.mimeType, M_OctetStream),
     size         |-> part.size]

\* index.ts:502-510.  filter, then map, over the flattened parts.
RECURSIVE AttachmentSummaries(_)
AttachmentSummaries(parts) ==
    IF parts = << >> THEN << >>
    ELSE IF IsAttachment(Head(parts))
         THEN <<AttachmentSummary(Head(parts))>> \o AttachmentSummaries(Tail(parts))
         ELSE AttachmentSummaries(Tail(parts))

\* The messages messages.get (format: full) answers with: one without a
\* payload, and every tree of at most MaxParts parts of the attachment kinds.
FullPayloads ==
    {<< >>} \cup
    UNION { {<<PartTree(kinds, parent, 1, << >>)>> :
                 kinds \in [1..n -> AttachmentKinds], parent \in ParentsOf(n)} :
            n \in 1..MaxParts }

\* The partIds asked for: those of the parts of the message and one of none.
NoSuchPartId == <<"9">>

DlPending == [state |-> "pending", error |-> "none", sizeBytes |-> 0]
DlFulfilled(n) == [state |-> "fulfilled", error |-> "none", sizeBytes |-> n]
DlRejected(e) == [state |-> "rejected", error |-> e, sizeBytes |-> 0]

PartsInit ==
    /\ partsPc = "idle"
    /\ fullPayload = << >>
    /\ flat = << >>
    /\ descriptors = << >>
    /\ wanted = << >>
    /\ fetches = << >>
    /\ fetched = << >>
    /\ writes = << >>
    /\ dlOutcome = DlPending

\* index.ts:494-511.  listAttachments, from the answer of messages.get on.
ListAttachments ==
    /\ partsPc = "idle"
    /\ \E pl \in FullPayloads :
         /\ fullPayload' = pl
         /\ flat' = flattenParts(pl)
         /\ descriptors' = AttachmentSummaries(flattenParts(pl))
    /\ partsPc' = "listed"
    /\ UNCHANGED <<wanted, fetches, fetched, writes, dlOutcome>>

\* A mutation of DownloadSource: the attachment id is looked at before the data.
DownloadSourceIdFirst(part) ==
    IF Truthy(part.attachmentId) THEN "attachment"
    ELSE IF Truthy(part.data) THEN "inline"
    ELSE "none"

\* index.ts:548-558.  Where the bytes of the part found come from.
DownloadSource(part) ==
    IF Truthy(part.data) THEN "inline"
    ELSE IF Truthy(part.attachmentId) THEN "attachment"
    ELSE "none"

\* index.ts:531-559.  downloadAttachmentPart, from the answer of messages.get
\* up to its return, its throw or the call of attachments.get (index.ts:519).
DownloadAttachmentPart ==
    /\ partsPc = "idle"
    /\ \E pl \in FullPayloads :
         LET parts == flattenParts(pl) IN
         \E partId \in {parts[k].partId : k \in 1..Len(parts)} \cup {NoSuchPartId} :
            LET hits == {k \in 1..Len(parts) : parts[k].partId = partId}
                part == parts[Least(hits)]
            IN  /\ fullPayload' = pl
                /\ flat' = parts
                /\ wanted' = partId
                /\ IF hits = {}
                   THEN /\ partsPc' = "failed"
                        /\ dlOutcome' = DlRejected("Attachment part not found")
                        /\ UNCHANGED <<fetches, writes>>
                   ELSE IF DownloadSource(part) = "inline"
                   THEN /\ writes' = Append(writes, fromBase64Url(part.data))
                        /\ dlOutcome' = DlFulfilled(Len(fromBase64Url(part.data)))
                        /\ partsPc' = "written"
                        /\ UNCHANGED fetches
                   ELSE IF DownloadSource(part) = "attachment"
                   THEN /\ fetches' = Append(fetches, part.attachmentId)
                        /\ partsPc' = "fetching"
                        /\ UNCHANGED <<writes, dlOutcome>>
                   ELSE /\ partsPc' = "failed"
                        /\ dlOutcome' = DlRejected("Part does not contain attachment data")
                        /\ UNCHANGED <<fetches, writes>>
    /\ UNCHANGED <<descriptors, fetched>>

\* index.ts:519-528.  attachments.get answers, with data or without: decode,
\* write, return.
AttachmentResolve ==
    /\ partsPc = "fetching"
    /\ \E data \in {Absent, toBase64Url(Utf8Bytes(FetchedText))} :
         LET bytes == fromBase64Url(OrElse(data, << >>))
         IN  /\ fetched' = bytes
             /\ writes' = Append(writes, bytes)
             /\ dlOutcome' = DlFulfilled(Len(bytes))
    /\ partsPc' = "written"
    /\ UNCHANGED <<fullPayload, flat, descriptors, wanted, fetches>>

\* index.ts:519.  attachments.get fails: the call rejects with its error.
AttachmentReject ==
    /\ partsPc = "fetching"
    /\ partsPc' = "failed"
    /\ dlOutcome' = DlRejected("attachments.get failed")
    /\ UNCHANGED <<fullPayload, flat, descriptors, wanted, fetches, fetched, writes>>

(***************************************************************************)
(* The attachment resolvers, index.ts:781-851, 857-879.                     *)
(***************************************************************************)
SLASH == "/"

\* String.prototype.toLowerCase, on the letters A to Z.
LowerChar(c) ==
    IF CharCode[c] \in 65..90 THEN CharOfCode(CharCode[c] + 32) ELSE c
ToLowerCase(text) == [k \in 1..Len(text) |-> LowerChar(text[k])]

\* String.prototype.endsWith
EndsWith(text, suffix) ==
    /\ Len(suffix) <= Len(text)
    /\ SubSeq(text, Len(text) - Len(suffix) + 1, Len(text)) = suffix

\* path.split('/').pop(): what follows the last "/", the whole path when it
\* has none.
LastSegment(path) ==
    LET slashes == {k \in 1..Len(path) : path[k] = SLASH}
        from == IF slashes = {} THEN 1
                ELSE 1 + CHOOSE k \in slashes : \A j \in slashes : j <= k
    IN  SubSeq(path, from, Len(path))

\* x || y for a text: x when it is defined and not empty.
OrText(x, y) == IF Truthy(x) THEN x ELSE y

X_Png == <<".", "p", "n", "g">>
X_Jpg == <<".", "j", "p", "g">>
X_Jpeg == <<".", "j", "p", "e", "g">>
X_Webp == <<".", "w", "e", "b", "p">>
X_Gif == <<".", "g", "i", "f">>
X_Pdf == <<".", "p", "d", "f">>
X_Txt == <<".", "t", "x", "t">>
X_Csv == <<".", "c", "s", "v">>
M_Jpeg == <<"i", "m", "a", "g", "e", "/", "j", "p", "e", "g">>
M_Webp == <<"i", "m", "a", "g", "e", "/", "w", "e", "b", "p">>
M_Gif == <<"i", "m", "a", "g", "e", "/", "g", "i", "f">>
M_Csv == <<"t", "e", "x", "t", "/", "c", "s", "v">>

\* A mutation of inferMimeTypeFromFilename: the filename is not lower-cased.
inferCaseSensitive(filename) ==
    LET lower == filename
    IN  IF EndsWith(lower, X_Png) THEN M_Png
        ELSE IF EndsWith(lower, X_Jpg) \/ EndsWith(lower, X_Jpeg) THEN M_Jpeg
        ELSE IF EndsWith(lower, X_Webp) THEN M_Webp
        ELSE IF EndsWith(lower, X_Gif) THEN M_Gif
        ELSE IF EndsWith(lower, X_Pdf) THEN M_Pdf
        ELSE IF EndsWith(lower, X_Txt) THEN S_TextPlain
        ELSE IF EndsWith(lower, X_Csv) THEN M_Csv
        ELSE M_OctetStream

\* index.ts:781-791.
inferMimeTypeFromFilename(filename) ==
    LET lower == ToLowerCase(filename)
    IN  IF EndsWith(lower, X_Png) THEN M_Png
        ELSE IF EndsWith(lower, X_Jpg) \/ EndsWith(lower, X_Jpeg) THEN M_Jpeg
        ELSE IF EndsWith(lower, X_Webp) THEN M_Webp
        ELSE IF EndsWith(lower, X_Gif) THEN M_Gif
        ELSE IF EndsWith(lower, X_Pdf) THEN M_Pdf
        ELSE IF EndsWith(lower, X_Txt) THEN S_TextPlain
        ELSE IF EndsWith(lower, X_Csv) THEN M_Csv
        ELSE M_OctetStream

F_AttachmentBin == <<"a", "t", "t", "a", "c", "h", "m", "e", "n", "t", ".", "b", "i", "n">>
F_DriveFile == <<"d", "r", "i", "v", "e", "-", "f", "i", "l", "e", "-">>

\* A mutation of LocalFilename: no name of last resort.
LocalFilenameNoDefault(attachment) ==
    OrText(attachment.filename, LastSegment(attachment.path))

\* index.ts:804.
LocalFilename(attachment) ==
    OrText(attachment.filename, OrText(LastSegment(attachment.path), F_AttachmentBin))

\* index.ts:805.  fileType is file.type.
LocalMimeType(attachment, fileType) ==
    OrText(attachment.mimeType,
           OrText(fileType, inferMimeTypeFromFilename(LocalFilename(attachment))))

\* index.ts:837-840.  meta is metaRes.data.
DriveFilename(attachment, meta) ==
    OrText(attachment.filename, OrText(meta.name, F_DriveFile \o attachment.fileId))

\* index.ts:841-844.
DriveMimeType(attachment, meta) ==
    OrText(attachment.mimeType,
           OrText(meta.mimeType,
                  inferMimeTypeFromFilename(DriveFilename(attachment, meta))))

\* Buffer.concat
RECURSIVE ConcatChunks(_)
ConcatChunks(chunks) ==
    IF chunks = << >> THEN << >> ELSE Head(chunks) \o ConcatChunks(Tail(chunks))

\* A mutation of toBuffer: a payload of no known shape gives an empty buffer.
toBufferLenient(data) ==
    CASE data.shape \in {"Buffer", "ArrayBuffer"} -> [ok |-> TRUE, bytes |-> data.bytes]
      [] data.shape = "view" ->
           [ok |-> TRUE,
            bytes |-> SubSeq(data.bytes, data.byteOffset + 1,
                             data.byteOffset + data.byteLength)]
      [] data.shape = "string" -> [ok |-> TRUE, bytes |-> Utf8Bytes(data.text)]
      [] data.shape = "Readable" -> [ok |-> TRUE, bytes |-> ConcatChunks(data.chunks)]
      [] OTHER -> [ok |-> TRUE, bytes |-> << >>]

\* index.ts:857-879.  data is contentRes.data: a Buffer, an ArrayBuffer, a
\* view of a part of one, a string, a stream of chunks, or something else,
\* for which toBuffer throws (ok is FALSE).
toBuffer(data) ==
    CASE data.shape \in {"Buffer", "ArrayBuffer"} -> [ok |-> TRUE, bytes |-> data.bytes]
      [] data.shape = "view" ->
           [ok |-> TRUE,
            bytes |-> SubSeq(data.bytes, data.byteOffset + 1,
                             data.byteOffset + data.byteLength)]
      [] data.shape = "string" -> [ok |-> TRUE, bytes |-> Utf8Bytes(data.text)]
      [] data.shape = "Readable" -> [ok |-> TRUE, bytes |-> ConcatChunks(data.chunks)]
      [] OTHER -> [ok |-> FALSE, bytes |-> << >>]

(***************************************************************************)
(* The sources resolved.  Source k of a list is ordinary (no overrides, a   *)
(* file that is there, nothing reported about its type) or odd: any          *)
(* combination of overrides, path or Drive name, reported type, and a file   *)
(* that is missing or content of any shape.  Each payload is made from one   *)
(* source alone, so one odd source per list, at every position, covers them. *)
(* The bytes of a file are those of a text that names it.                   *)
(***************************************************************************)
P_Dir == <<"/", "f", "/">>
P_Id == <<"i", "d">>
T_Drive == <<"d", "r", "i", "v", "e", " ">>

LocalPaths ==
    {<<"/", "t", "m", "p", "/", "a", ".", "P", "N", "G">>,
     <<"d", "i", "r", "/">>,
     <<"n", "o", "t", "e", "s">>,
     <<"b", ".", "c", "s", "v">>,
     <<"x", ".", "t", "a", "r", ".", "j", "p", "e", "g">>}

FilenameOverrides ==
    {Absent, << >>,
     <<"P", "h", "o", "t", "o", ".", "J", "P", "G">>,
     <<"s", "c", "a", "n", ".", "w", "e", "b", "p">>,
     <<"a", "n", "i", "m", ".", "g", "i", "f">>,
     <<"d", "o", "c", ".", "p", "d", "f">>,
     <<"p", "n", "g">>,
     <<"a", ".", "p", "d", "f", ".", "t", "x", "t">>}

MimeTypeOverrides == {Absent, << >>, <<"t", "e", "x", "t", "/", "x", "-", "l", "o", "g">>}

ReportedTypes == {<< >>, M_Gif}

DriveNames == {Absent, << >>, <<"R", "e", "p", "o", "r", "t", ".", "P", "D", "F">>, <<"s", "h", "e", "e", "t", ".", "c", "s", "v">>}

DriveMimeTypes == {Absent, << >>, <<"a", "p", "p", "l", "i", "c", "a", "t", "i", "o", "n", "/", "v", "n", "d", ".", "x">>}

ContentShapes == {"Buffer", "ArrayBuffer", "view", "string", "Readable", "number"}

\* What the file at path holds, and what Drive holds under fileId.
LocalBytes(path) == Utf8Bytes(path)
DriveText(fileId) == T_Drive \o fileId
DriveBytes(fileId) == Utf8Bytes(DriveText(fileId))

\* contentRes.data for fileId, in a shape.
DriveContent(fileId, shape) ==
    LET bytes == DriveBytes(fileId)
    IN  CASE shape \in {"Buffer", "ArrayBuffer"} -> [shape |-> shape, bytes |-> bytes]
          [] shape = "view" ->
               [shape |-> shape, bytes |-> <<0, 255>> \o bytes \o <<7>>,
                byteOffset |-> 2, byteLength |-> Len(bytes)]
          [] shape = "string" -> [shape |-> shape, text |-> DriveText(fileId)]
          [] shape = "Readable" ->
               [shape |-> shape,
                chunks |-> <<SubSeq(bytes, 1, 4), SubSeq(bytes, 5, Len(bytes))>>]
          [] OTHER -> [shape |-> shape, bytes |-> << >>]

OrdinaryLocal(k) ==
    [source |-> [path |-> P_Dir \o Decimal(k) \o X_Txt, filename |-> Absent,
                 mimeType |-> Absent],
     answer |-> [exists |-> TRUE, type |-> << >>]]

OddLocals ==
    {[source |-> [path |-> path, filename |-> f, mimeType |-> m],
      answer |-> [exists |-> e, type |-> t]] :
        path \in LocalPaths, f \in FilenameOverrides, m \in MimeTypeOverrides,
        e \in BOOLEAN, t \in ReportedTypes}

OrdinaryDrive(k) ==
    [source |-> [fileId |-> P_Id \o Decimal(k), filename |-> Absent, mimeType |-> Absent],
     answer |-> [name |-> P_Id \o Decimal(k) \o X_Pdf, mimeType |-> Absent,
                 shape |-> "ArrayBuffer"]]

OddDrives ==
    {[source |-> [fileId |-> P_Id, filename |-> f, mimeType |-> m],
      answer |-> [name |-> n, mimeType |-> t, shape |-> sh]] :
        f \in {Absent, << >>, <<"P", "h", "o", "t", "o", ".", "J", "P", "G">>}, m \in MimeTypeOverrides, n \in DriveNames,
        t \in DriveMimeTypes, sh \in ContentShapes}

\* The lists of up to MaxSources sources: all ordinary, or one odd.
SourceLists(Ordinary(_), odds) ==
    UNION { {[k \in 1..n |-> Ordinary(k)]} \cup
            {[k \in 1..n |-> IF k = j THEN odd ELSE Ordinary(k)] :
                 j \in 1..n, odd \in odds} :
            n \in 0..MaxSources }

RPending == [state |-> "pending", error |-> "none", path |-> << >>, value |-> << >>]
RFulfilled(v) == [state |-> "fulfilled", error |-> "none", path |-> << >>, value |-> v]
RRejected(e, path) == [state |-> "rejected", error |-> e, path |-> path, value |-> << >>]

NoMeta == [name |-> Absent, mimeType |-> Absent]

ResolveInit ==
    /\ rKind = "none"
    /\ rPc = "idle"
    /\ sources = << >>
    /\ world = << >>
    /\ rIdx = 0
    /\ rMeta = NoMeta
    /\ payloads = << >>
    /\ asked = << >>
    /\ rOutcome = RPending

\* A call: the list taken, payloads empty, and the loop at its first source,
\* asking the collaborator about it, or over at once for an empty list.
StartResolve(kind, list, firstStep) ==
    /\ rKind' = kind
    /\ sources' = [k \in 1..Len(list) |-> list[k].source]
    /\ world' = [k \in 1..Len(list) |-> list[k].answer]
    /\ payloads' = << >>
    /\ rMeta' = NoMeta
    /\ IF Len(list) = 0
       THEN /\ rPc' = "done"
            /\ rOutcome' = RFulfilled(<< >>)
            /\ UNCHANGED <<rIdx, asked>>
       ELSE /\ rPc' = firstStep
            /\ rIdx' = 1
            /\ asked' = <<1>>
            /\ UNCHANGED rOutcome

\* A mutation of PushPayload: the payload is put at the front.
PushPayloadFront(list, item) == <<item>> \o list

\* index.ts:807, 847.  payloads.push(...)
PushPayload(list, item) == Append(list, item)

\* index.ts:807-809, 847-850.  Push the payload of the source the loop is at,
\* then go on to the next source or return the payloads.
PushAndGoOn(item, firstStep) ==
    /\ payloads' = PushPayload(payloads, item)
    /\ IF rIdx < Len(sources)
       THEN /\ rIdx' = rIdx + 1
            /\ rPc' = firstStep
            /\ asked' = Append(asked, rIdx + 1)
            /\ UNCHANGED rOutcome
       ELSE /\ rPc' = "done"
            /\ rOutcome' = RFulfilled(PushPayload(payloads, item))
            /\ UNCHANGED <<rIdx, asked>>

\* index.ts:793-799.  readLocalAttachmentPayloads is called.
StartLocal ==
    /\ rPc = "idle"
    /\ \E list \in SourceLists(OrdinaryLocal, OddLocals) :
          StartResolve("local", list, "exists")

\* index.ts:799-802.  file.exists() answers.
LocalExists ==
    /\ rPc = "exists"
    /\ IF world[rIdx].exists
       THEN /\ rPc' = "read"
            /\ UNCHANGED rOutcome
       ELSE /\ rPc' = "failed"
            /\ rOutcome' = RRejected("Attachment file not found", sources[rIdx].path)
    /\ UNCHANGED <<rKind, sources, world, rIdx, rMeta, payloads, asked>>

\* index.ts:804-807.  file.arrayBuffer() answers.
LocalRead ==
    /\ rPc = "read"
    /\ PushAndGoOn([filename |-> LocalFilename(sources[rIdx]),
                    mimeType |-> LocalMimeType(sources[rIdx], world[rIdx].type),
                    base64Data |-> toBase64(LocalBytes(sources[rIdx].path))],
                   "exists")
    /\ UNCHANGED <<rKind, sources, world, rMeta>>

\* index.ts:806.  file.arrayBuffer() fails.
LocalReadReject ==
    /\ rPc = "read"
    /\ rPc' = "failed"
    /\ rOutcome' = RRejected("file.arrayBuffer failed", << >>)
    /\ UNCHANGED <<rKind, sources, world, rIdx, rMeta, payloads, asked>>

\* index.ts:812-824.  readDriveAttachmentPayloads is called.
StartDrive ==
    /\ rPc = "idle"
    /\ \E list \in SourceLists(OrdinaryDrive, OddDrives) :
          StartResolve("drive", list, "meta")

\* index.ts:819-835.  The metadata answers; the content is asked for.
DriveMeta ==
    /\ rPc = "meta"
    /\ rMeta' = [name |-> world[rIdx].name, mimeType |-> world[rIdx].mimeType]
    /\ rPc' = "content"
    /\ UNCHANGED <<rKind, sources, world, rIdx, payloads, asked, rOutcome>>

\* index.ts:825-847.  The content answers: filename, mimeType, toBuffer, push.
DriveContentAnswer ==
    /\ rPc = "content"
    /\ LET buffer == toBuffer(DriveContent(sources[rIdx].fileId, world[rIdx].shape))
       IN  IF buffer.ok
           THEN /\ PushAndGoOn([filename |-> DriveFilename(sources[rIdx], rMeta),
                                mimeType |-> DriveMimeType(sources[rIdx], rMeta),
                                base64Data |-> toBase64(buffer.bytes)],
                               "meta")
                /\ UNCHANGED rMeta
           ELSE /\ rPc' = "failed"
                /\ rOutcome' = RRejected("Unsupported drive content payload type", << >>)
                /\ UNCHANGED <<rIdx, rMeta, payloads, asked>>
    /\ UNCHANGED <<rKind, sources, world>>

\* index.ts:819, 825.  drive.files.get fails, for the metadata or the content.
DriveReject ==
    /\ rPc \in {"meta", "content"}
    /\ rPc' = "failed"
    /\ rOutcome' = RRejected("drive.files.get failed", << >>)
    /\ UNCHANGED <<rKind, sources, world, rIdx, rMeta, payloads, asked>>

(***************************************************************************)
(* replyToMessage, index.ts:365-385.                                       *)
(***************************************************************************)
S_Re == <<"R", "e", ":">>
S_ReSpace == <<"R", "e", ":", " ">>
S_InReplyTo == <<"I", "n", "-", "R", "e", "p", "l", "y", "-", "T", "o">>
S_References == <<"R", "e", "f", "e", "r", "e", "n", "c", "e", "s">>

\* String.prototype.startsWith
StartsWith(text, prefix) ==
    /\ Len(prefix) <= Len(text)
    /\ SubSeq(text, 1, Len(prefix)) = prefix

\* A mutation of ReplySubject: the prefix is looked for whatever its case.
ReplySubjectAnyCase(subject) ==
    IF StartsWith(ToLowerCase(subject), ToLowerCase(S_Re)) THEN subject
    ELSE S_ReSpace \o subject

\* index.ts:371-373.
ReplySubject(subject) ==
    IF StartsWith(subject, S_Re) THEN subject ELSE S_ReSpace \o subject

\* The subjects, senders and ids of the messages replied to, and the bodies of
\* the replies.
OriginalSubjects ==
    {<< >>,
     <<"H", "i">>,
     <<"R", "e", ":", " ", "H", "i">>,
     <<"R", "e", ":", "H", "i">>,
     <<"R", "e", ":">>,
     <<"r", "e", ":", " ", "H", "i">>,
     <<"R", "E", ":", " ", "H", "i">>,
     <<"R", "e", " ", ":", " ", "H", "i">>,
     <<"R", "e">>,
     <<"R">>,
     <<" ", "R", "e", ":", " ", "H", "i">>,
     <<"F", "w", "d", ":", " ", "R", "e", ":", " ", "H", "i">>,
     <<"R", "e", ":", " ", "R", "e", ":", " ", "H", "i">>,
     <<"R", "e", "p", "l", "y">>,
     <<"r", "e", ":">>,
     <<"R", "e", " ", ":">>}

OriginalSenders == {T_AddressA, T_AddressB, << >>}

ReplyMessageIds == {<<"1", "8", "c", "1">>, <<"1", "8", "c", "2">>}

ReplyBodies == {T_BodyText, T_TwoLines}

NoMessage == [id |-> << >>, threadId |-> << >>, from |-> << >>, subject |-> << >>]
NothingSent == [raw |-> << >>, threadId |-> << >>]

ReplyInit ==
    /\ replyPc = "idle"
    /\ replyArgs = [messageId |-> << >>, body |-> << >>]
    /\ original = NoMessage
    /\ sentReply = NothingSent

\* index.ts:365-370.  replyToMessage is called and asks for the original.
ReplyCall ==
    /\ replyPc = "idle"
    /\ \E id \in ReplyMessageIds : \E body \in ReplyBodies :
         replyArgs' = [messageId |-> id, body |-> body]
    /\ replyPc' = "get"
    /\ UNCHANGED <<original, sentReply>>

\* index.ts:370-383.  getMessage answers (its from and subject are header
\* values, the empty string when the header is missing): the subject is made,
\* the reply built and messages.send called with it on the original's thread.
ReplySend ==
    /\ replyPc = "get"
    /\ \E from \in OriginalSenders : \E subject \in OriginalSubjects :
         LET message == [id |-> replyArgs.messageId,
                         threadId |-> <<"t">> \o replyArgs.messageId,
                         from |-> from, subject |-> subject]
         IN  /\ original' = message
             /\ sentReply' =
                  [raw |-> buildRawEmail(message.from, ReplySubject(message.subject),
                                         replyArgs.body, S_TextPlain,
                                         << [key |-> S_InReplyTo,
                                             value |-> replyArgs.messageId],
                                            [key |-> S_References,
                                             value |-> replyArgs.messageId] >>),
                   threadId |-> message.threadId]
    /\ replyPc' = "sent"
    /\ UNCHANGED replyArgs

\* index.ts:370.  getMessage fails: nothing is sent.
ReplyGetReject ==
    /\ replyPc = "get"
    /\ replyPc' = "failed"
    /\ UNCHANGED <<replyArgs, original, sentReply>>

(***************************************************************************)
(* The senders with attachments, index.ts:317-349 and 441-481: resolve the   *)
(* attachments, build the raw message, hand it to Gmail.                     *)
(***************************************************************************)
LocalSenders == {"sendMessageWithAttachments", "createDraftWithAttachments"}
DriveSenders == {"sendMessageWithDriveAttachments", "createDraftWithDriveAttachments"}

\* index.ts:326, 344, 451, 471.  The call of Gmail a sender ends with.
ExternalCall(fn) ==
    IF fn \in {"sendMessageWithAttachments", "sendMessageWithDriveAttachments"}
    THEN "users.messages.send"
    ELSE "users.drafts.create"

\* A MIME type a caller passes that holds a line break and a header of its own.
M_Inject ==
    <<"a", "/", "b", "\r", "\n", "X", "-", "E", "v", "i", "l", ":", " ", "1">>
P_Odd == <<"/", "f", "/", "o", ".", "b", "i", "n">>
N_Report == <<"r", ".", "p", "d", "f">>

\* The odd sources of the senders: a filename and a MIME type that hold line
\* breaks, a file that is missing, a Drive content of no known shape.
SendOddLocals ==
    {[source |-> [path |-> P_Odd, filename |-> f, mimeType |-> m],
      answer |-> [exists |-> e, type |-> << >>]] :
        f \in {Absent, F_Inject}, m \in {Absent, M_Inject}, e \in BOOLEAN}

SendOddDrives ==
    {[source |-> [fileId |-> P_Id, filename |-> f, mimeType |-> m],
      answer |-> [name |-> N_Report, mimeType |-> Absent, shape |-> sh]] :
        f \in {Absent, F_Inject}, m \in {Absent, M_Inject},
        sh \in {"Buffer", "number"}}

NoCall == [fn |-> "none", to |-> << >>, subject |-> << >>, body |-> << >>]

SendInit ==
    /\ call = NoCall
    /\ callPc = "idle"
    /\ calls = << >>

\* A mutation of Awaited: the caller goes on once the promise has settled,
\* fulfilled or not.
AwaitedSettled(promise) == promise.state # "pending"

\* index.ts:324, 342, 448, 470.  await: the caller goes on past it only once
\* the promise is fulfilled.
Awaited(promise) == promise.state = "fulfilled"

\* index.ts:317-324, 441-448.  A sender of local files is called and calls
\* readLocalAttachmentPayloads.
CallLocal ==
    /\ callPc = "idle"
    /\ rPc = "idle"
    /\ \E fn \in LocalSenders : \E l \in Letters :
          call' = [fn |-> fn, to |-> l.to, subject |-> l.subject, body |-> l.body]
    /\ \E list \in SourceLists(OrdinaryLocal, SendOddLocals) :
          StartResolve("local", list, "exists")
    /\ callPc' = "resolving"
    /\ UNCHANGED <<calls, buildVars>>

\* index.ts:333-342, 461-470.  A sender of Drive files is called and calls
\* readDriveAttachmentPayloads.
CallDrive ==
    /\ callPc = "idle"
    /\ rPc = "idle"
    /\ \E fn \in DriveSenders : \E l \in Letters :
          call' = [fn |-> fn, to |-> l.to, subject |-> l.subject, body |-> l.body]
    /\ \E list \in SourceLists(OrdinaryDrive, SendOddDrives) :
          StartResolve("drive", list, "meta")
    /\ callPc' = "resolving"
    /\ UNCHANGED <<calls, buildVars>>

\* index.ts:324-329, 342-347, 448-452, 470-474.  The payloads are there: build
\* the raw message and call Gmail with it.
IssueCall ==
    /\ callPc = "resolving"
    /\ Awaited(rOutcome)
    /\ LET raw == buildRawEmailWithAttachments(call.to, call.subject, call.body,
                                               payloads, now)
       IN  /\ last' = [fn |-> "buildRawEmailWithAttachments", to |-> call.to,
                       subject |-> call.subject, body |-> call.body,
                       contentType |-> << >>, attachments |-> payloads,
                       raw |-> raw]
           /\ calls' = Append(calls, [api |-> ExternalCall(call.fn), raw |-> raw])
    /\ stamps' = IF Len(payloads) = 0 THEN stamps
                 ELSE Append(stamps, [at |-> now, token |-> BoundaryToken(now)])
    /\ callPc' = "calling"
    /\ UNCHANGED <<now, call, resolveVars>>

\* index.ts:324, 342, 448, 470.  The resolver has failed: the await throws and
\* the sender fails with it.
CallRejects ==
    /\ callPc = "resolving"
    /\ rOutcome.state = "rejected"
    /\ callPc' = "failed"
    /\ UNCHANGED <<call, calls, buildVars, resolveVars>>

\* index.ts:330, 348, 453-457, 475-479.  Gmail answers and the sender returns.
CallAnswer ==
    /\ callPc = "calling"
    /\ callPc' = "returned"
    /\ UNCHANGED <<call, calls, buildVars, resolveVars>>

\* index.ts:326, 344, 451, 471.  Gmail fails the call and the sender with it.
CallFails ==
    /\ callPc = "calling"
    /\ callPc' = "failed"
    /\ UNCHANGED <<call, calls, buildVars, resolveVars>>

InitSend == SumInit /\ BuildInit /\ WalkInit /\ PartsInit /\ ResolveInit /\ ReplyInit
    /\ SendInit

NextSend ==
    \/ CallLocal /\ UNCHANGED notSend
    \/ CallDrive /\ UNCHANGED notSend
    \/ LocalExists /\ UNCHANGED notResolve
    \/ LocalRead /\ UNCHANGED notResolve
    \/ LocalReadReject /\ UNCHANGED notResolve
    \/ DriveMeta /\ UNCHANGED notResolve
    \/ DriveContentAnswer /\ UNCHANGED notResolve
    \/ DriveReject /\ UNCHANGED notResolve
    \/ IssueCall /\ UNCHANGED notSend
    \/ CallRejects /\ UNCHANGED notSend
    \/ CallAnswer /\ UNCHANGED notSend
    \/ CallFails /\ UNCHANGED notSend

SpecSend == InitSend /\ [][NextSend]_vars

InitResolve == SumInit /\ BuildInit /\ WalkInit /\ PartsInit /\ ResolveInit /\ ReplyInit
    /\ SendInit

NextResolve ==
    \/ StartLocal /\ UNCHANGED notResolve
    \/ LocalExists /\ UNCHANGED notResolve
    \/ LocalRead /\ UNCHANGED notResolve
    \/ LocalReadReject /\ UNCHANGED notResolve
    \/ StartDrive /\ UNCHANGED notResolve
    \/ DriveMeta /\ UNCHANGED notResolve
    \/ DriveContentAnswer /\ UNCHANGED notResolve
    \/ DriveReject /\ UNCHANGED notResolve

SpecResolve == InitResolve /\ [][NextResolve]_vars

InitReply == SumInit /\ BuildInit /\ WalkInit /\ PartsInit /\ ResolveInit /\ ReplyInit
    /\ SendInit

NextReply ==
    \/ ReplyCall /\ UNCHANGED notReply
    \/ ReplySend /\ UNCHANGED notReply
    \/ ReplyGetReject /\ UNCHANGED notReply

SpecReply == InitReply /\ [][NextReply]_vars

InitParts == SumInit /\ BuildInit /\ WalkInit /\ PartsInit /\ ResolveInit /\ ReplyInit
    /\ SendInit

NextParts ==
    \/ ListAttachments /\ UNCHANGED notParts
    \/ DownloadAttachmentPart /\ UNCHANGED notParts
    \/ AttachmentResolve /\ UNCHANGED notParts
    \/ AttachmentReject /\ UNCHANGED notParts

SpecParts == InitParts /\ [][NextParts]_vars

InitBody == SumInit /\ BuildInit /\ WalkInit /\ PartsInit /\ ResolveInit /\ ReplyInit
    /\ SendInit

NextBody ==
    \/ GetMessage /\ UNCHANGED notWalk

SpecBody == InitBody /\ [][NextBody]_vars

InitBuild == SumInit /\ BuildInit /\ WalkInit /\ PartsInit /\ ResolveInit /\ ReplyInit
    /\ SendInit

NextBuild ==
    \/ Tick /\ UNCHANGED notBuild
    \/ BuildPlain /\ UNCHANGED notBuild
    \/ BuildWithAttachments /\ UNCHANGED notBuild
    \/ Deliver /\ UNCHANGED notBuild

SpecBuild == InitBuild /\ [][NextBuild]_vars

Init == SumInit /\ BuildInit /\ WalkInit /\ PartsInit /\ ResolveInit /\ ReplyInit
    /\ SendInit

Next ==
    \/ ListResolve /\ UNCHANGED notSum
    \/ ListReject /\ UNCHANGED notSum
    \/ StartBatch /\ UNCHANGED notSum
    \/ \E k \in inflight : DetailResolve(k) /\ UNCHANGED notSum
    \/ \E k \in inflight : DetailReject(k) /\ UNCHANGED notSum
    \/ JoinBatch /\ UNCHANGED notSum
    \/ Return /\ UNCHANGED notSum

Spec == Init /\ [][Next]_vars

(***************************************************************************)
(* The built message as its recipient reads it.                            *)
(***************************************************************************)
\* The text of the raw message just built.
BuiltText == Utf8Text(fromBase64Url(last.raw))

\* Where pattern occurs in text (the positions of its first character).
Occurrences(text, pattern) ==
    {p \in 1..(Len(text) - Len(pattern) + 1) :
        /\ text[p] = pattern[1]
        /\ SubSeq(text, p, p + Len(pattern) - 1) = pattern}

\* A header block ends at the first empty line; the content follows it.
HeaderBlock(text) ==
    LET ends == Occurrences(text, CRLF \o CRLF)
    IN  IF ends = {} THEN text ELSE SubSeq(text, 1, Least(ends) - 1)
Content(text) ==
    LET ends == Occurrences(text, CRLF \o CRLF)
    IN  IF ends = {} THEN << >> ELSE SubSeq(text, Least(ends) + 4, Len(text))

\* The lines of a text, as the sequence of their lengths, and the text with
\* its line breaks taken out.
LineLengths(text) ==
    LET breaks == Occurrences(text, CRLF)
        starts == {1} \cup {p + 2 : p \in breaks}
        EndOf(st) == LET later == {p \in breaks : p >= st}
                     IN  IF later = {} THEN Len(text) + 1 ELSE Least(later)
        Nth(q) == CHOOSE st \in starts : Cardinality({r \in starts : r < st}) = q - 1
    IN  [q \in 1..Cardinality(starts) |-> EndOf(Nth(q)) - Nth(q)]
Unwrapped(text) == SelectSeq(text, LAMBDA c : c \notin {CR, LF})

\* The boundary parameter of the message's Content-Type header.
DeclaredBoundary(text) ==
    LET head == HeaderBlock(text)
        at == Occurrences(head, <<"b", "o", "u", "n", "d", "a", "r", "y", "=", DQUOTE>>)
    IN  IF at = {} THEN << >>
        ELSE LET from == Least(at) + 10
                 close == {p \in from..Len(head) : head[p] = DQUOTE}
             IN  IF close = {} THEN << >> ELSE SubSeq(head, from, Least(close) - 1)

\* The delimiter lines of a multipart body: "--" and the boundary at the start
\* of a line, followed by a line break (a part follows) or by "--" (the end).
DelimiterLines(body, token) ==
    LET mark == S_DashDash \o token
        after(p) == SubSeq(body, p + Len(mark), p + Len(mark) + 1)
    IN  {p \in Occurrences(body, mark) :
            /\ p = 1 \/ (p >= 3 /\ body[p - 2] = CR /\ body[p - 1] = LF)
            /\ after(p) \in {CRLF, S_DashDash}}
IsClosing(body, token, p) ==
    SubSeq(body, p + 2 + Len(token), p + 3 + Len(token)) = S_DashDash

\* The parts of a multipart body: the texts between one delimiter line and the
\* next, up to the first closing delimiter.
MimeParts(body, token) ==
    LET lines == DelimiterLines(body, token)
        closing == {p \in lines : IsClosing(body, token, p)}
        open == {p \in lines : ~IsClosing(body, token, p)
                                /\ \A c \in closing : p < c}
        Nth(q) == CHOOSE p \in open : Cardinality({r \in open : r < p}) = q - 1
        NextLine(p) == Least({r \in lines : r > p})
    IN  [q \in 1..Cardinality(open) |->
            IF {r \in lines : r > Nth(q)} = {}
            THEN SubSeq(body, Nth(q) + Len(token) + 4, Len(body))
            ELSE SubSeq(body, Nth(q) + Len(token) + 4, NextLine(Nth(q)) - 3)]

\* What follows the first closing delimiter.
Epilogue(body, token) ==
    LET closing == {p \in DelimiterLines(body, token) : IsClosing(body, token, p)}
    IN  IF closing = {} THEN body
        ELSE SubSeq(body, Least(closing) + Len(token) + 4, Len(body))

\* The parts of the attachments of the build just made, in list order: the
\* last parts of the message, as many as it has attachments.
AttachmentPartsBuilt ==
    LET text == BuiltText
        token == DeclaredBoundary(text)
        body == Content(text)
        lines == DelimiterLines(body, token)
        n == Len(last.attachments)
        Nth(q) == CHOOSE p \in lines : Cardinality({r \in lines : r < p}) = q - 1
        first == Cardinality(lines) - n
    IN  [a \in 1..n |->
            SubSeq(body, Nth(first + a - 1) + Len(token) + 4, Nth(first + a) - 3)]

Multipart == last.fn = "buildRawEmailWithAttachments" /\ Len(last.attachments) >= 1

(***************************************************************************)
(* Properties of the builder (specification SpecBuild).                    *)
(***************************************************************************)
\* C4: with an empty attachment list buildRawEmailWithAttachments returns the
\* raw message buildRawEmail returns for text/plain, whose header block names
\* neither multipart nor a boundary.
C4_EmptyListIsPlain ==
    (last.fn = "buildRawEmailWithAttachments" /\ Len(last.attachments) = 0) =>
        LET text == BuiltText
            head == HeaderBlock(text)
        IN  /\ last.raw = buildRawEmail(last.to, last.subject, last.body,
                                        S_TextPlain, << >>)
            /\ Occurrences(head, <<"m", "u", "l", "t", "i", "p", "a", "r", "t">>) = {}
            /\ Occurrences(head, <<"b", "o", "u", "n", "d", "a", "r", "y">>) = {}
            /\ Content(text) = last.body

\* buildRawEmailWithAttachments was called with no attachment and a body.
C4_Witness ==
    /\ last.fn = "buildRawEmailWithAttachments"
    /\ Len(last.attachments) = 0
    /\ last.body # << >>
    /\ last.raw # << >>

\* C5: a message built with N >= 1 attachments splits at its delimiter lines
\* into exactly 1 + N parts, the text body first and then the attachments in
\* list order, and ends with the closing delimiter.
C5_PartsMatchAttachments ==
    Multipart =>
        LET text == BuiltText
            token == DeclaredBoundary(text)
            parts == MimeParts(Content(text), token)
            n == Len(last.attachments)
        IN  /\ Len(parts) = 1 + n
            /\ Content(parts[1]) = last.body
            /\ \A a \in 1..n :
                  Unwrapped(Content(parts[1 + a])) = last.attachments[a].base64Data
            /\ Epilogue(Content(text), token) = << >>

\* C6, as claimed: no two multipart builds share their boundary token.
C6_TokensUnique ==
    \A a, b \in 1..Len(stamps) : a # b => stamps[a].token # stamps[b].token

\* C6, as amended: the token is gmail_tool_boundary_ followed by the clock
\* reading of the build, so two builds share their token exactly when they read
\* the same millisecond; and it is the boundary the built message declares.
C6_TokensFollowClock ==
    /\ \A a, b \in 1..Len(stamps) :
          (stamps[a].token = stamps[b].token) <=> (stamps[a].at = stamps[b].at)
    /\ \A a \in 1..Len(stamps) :
          /\ SubSeq(stamps[a].token, 1, 20) = S_BoundaryPrefix
          /\ Len(stamps[a].token) > 20
    /\ Multipart => DeclaredBoundary(BuiltText) = stamps[Len(stamps)].token

\* Two multipart builds were made at different clock readings.
C6_Witness ==
    /\ Len(stamps) = 2
    /\ stamps[1].at # stamps[2].at
    /\ Multipart

\* C7: in the part of every attachment the name="..." and filename="..."
\* values are the filename with each CR, LF and double quote replaced by "_":
\* they hold none of the three, and the quote and line break that close each
\* value follow it.
C7_FilenameSanitized ==
    Multipart =>
        LET built == AttachmentPartsBuilt IN
        \A a \in 1..Len(last.attachments) :
            LET part == built[a]
                f == last.attachments[a].filename
                lead == S_ContentType \o last.attachments[a].mimeType \o S_Name
                mid == S_Quote \o CRLF \o S_Disposition
                name == SubSeq(part, Len(lead) + 1, Len(lead) + Len(f))
                at2 == Len(lead) + Len(f) + Len(mid)
                filename == SubSeq(part, at2 + 1, at2 + Len(f))
            IN  /\ SubSeq(part, 1, Len(lead)) = lead
                /\ SubSeq(part, Len(lead) + Len(f) + 1, at2) = mid
                /\ SubSeq(part, at2 + Len(f) + 1, at2 + Len(f) + 3) = S_Quote \o CRLF
                /\ name = filename
                /\ \A k \in 1..Len(f) :
                      /\ name[k] \notin {CR, LF, DQUOTE}
                      /\ name[k] = IF f[k] \in {CR, LF, DQUOTE} THEN "_" ELSE f[k]

\* A message was built with an attachment whose filename holds a double quote
\* after which comes a line break.
C7_Witness ==
    /\ Multipart
    /\ \E a \in 1..Len(last.attachments) :
          LET f == last.attachments[a].filename
          IN  \E j, k \in 1..Len(f) : j < k /\ f[j] = DQUOTE /\ f[k] = CR

\* C8: in the part of every attachment the payload is laid out in lines of at
\* most 76 characters which, put together again, are the payload.
C8_PayloadLines ==
    Multipart =>
        LET built == AttachmentPartsBuilt IN
        \A a \in 1..Len(last.attachments) :
            LET content == Content(built[a])
                lengths == LineLengths(content)
            IN  /\ \A q \in 1..Len(lengths) : lengths[q] <= 76
                /\ Unwrapped(content) = last.attachments[a].base64Data

\* A message was built with a payload of more than two full lines.
C8_Witness ==
    /\ Multipart
    /\ \E a \in 1..Len(last.attachments) : Len(last.attachments[a].base64Data) > 152

(***************************************************************************)
(* Properties of extractBody (specification SpecBody).                     *)
(***************************************************************************)
\* The children of the root walked, and those of them of a MIME type.
RootParts == IF payload = << >> THEN << >> ELSE payload[1].parts
RootOfType(m) == {k \in 1..Len(RootParts) : RootParts[k].mimeType = m}
RootHasData == payload # << >> /\ Truthy(payload[1].data)

\* The parts of the tree under part, itself included.
RECURSIVE Subparts(_)
Subparts(part) ==
    {part} \cup UNION {Subparts(part.parts[k]) : k \in 1..Len(part.parts)}

PayloadParts == IF payload = << >> THEN {} ELSE Subparts(payload[1])

\* C11: extractBody returns a string for every part tree and for an absent
\* payload, and the empty string when no part of the tree carries data.
C11_Total ==
    walked =>
        /\ \A k \in 1..Len(bodyText) : bodyText[k] \in Chars
        /\ (\A part \in PayloadParts : ~Truthy(part.data)) => bodyText = << >>

\* A tree of three or more parts on three levels, none of them with data, was
\* walked and gave the empty string.
C11_Witness ==
    /\ walked
    /\ payload # << >>
    /\ Cardinality(PayloadParts) >= 3
    /\ \E k \in 1..Len(RootParts) : RootParts[k].parts # << >>
    /\ \A part \in PayloadParts : ~Truthy(part.data)
    /\ bodyText = << >>

\* C9: for a root without data, (a) when no child is text/plain and the text/html
\* child (the first, if there are several) carries data, that child's text is
\* returned; (b) when there are a text/plain and a text/html child and the
\* text/plain child (the first) carries data, the text/plain child's text is.
C9_PlainOverHtml ==
    (walked /\ payload # << >> /\ ~RootHasData) =>
        LET plain == RootOfType(S_TextPlain)
            html == RootOfType(S_TextHtml)
        IN  /\ (plain = {} /\ html # {} /\ Truthy(RootParts[Least(html)].data))
                  => bodyText = TextAt(<<Least(html)>>)
            /\ (plain # {} /\ html # {} /\ Truthy(RootParts[Least(plain)].data))
                  => bodyText = TextAt(<<Least(plain)>>)

\* The root has a text/html child with data ahead of a text/plain child with
\* data, and the text/plain child's text was returned.
C9_Witness ==
    /\ walked /\ payload # << >> /\ ~RootHasData
    /\ \E h \in RootOfType(S_TextHtml) : \E p \in RootOfType(S_TextPlain) :
          /\ h < p
          /\ Truthy(RootParts[h].data) /\ Truthy(RootParts[p].data)
          /\ RootOfType(S_TextPlain) = {p}
          /\ bodyText = TextAt(<<p>>)

\* C10: for a root without data the text returned is that of the first child
\* that is text/plain and carries data, when there is one; if not, that of the
\* first child that is text/html and carries data, when there is one.
C10_FirstWithData ==
    (walked /\ payload # << >> /\ ~RootHasData) =>
        LET plain == {k \in RootOfType(S_TextPlain) : Truthy(RootParts[k].data)}
            html == {k \in RootOfType(S_TextHtml) : Truthy(RootParts[k].data)}
        IN  IF plain # {} THEN bodyText = TextAt(<<Least(plain)>>)
            ELSE IF html # {} THEN bodyText = TextAt(<<Least(html)>>)
            ELSE TRUE

\* The children of the root that are text/plain or text/html and carry data.
RootTextWithData ==
    {k \in RootOfType(S_TextPlain) \cup RootOfType(S_TextHtml) :
        Truthy(RootParts[k].data)}

\* C21: for a root without data, when a child of the root is text/plain or
\* text/html and carries data, the text returned is that of such a child, and
\* not that of a part further down or of another kind, whatever other parts
\* of the tree carry data.
C21_ShallowOverDeep ==
    (walked /\ payload # << >> /\ ~RootHasData /\ RootTextWithData # {}) =>
        \E k \in RootTextWithData : bodyText = TextAt(<<k>>)

(***************************************************************************)
(* Properties of listMessageSummaries (specification Spec).                *)
(***************************************************************************)
\* The batch (0-based) that reference k of refs falls in.
BatchOf(k) == (k - 1) \div 5

\* C1: a detail fetch of a later batch is issued only once every detail fetch
\* of each earlier batch has been answered; so the fetches in flight all belong
\* to one batch and there are at most 5 of them.
C1_BatchBarrier ==
    /\ \A k \in issued : \A j \in 1..Len(refs) :
          BatchOf(j) < BatchOf(k) => j \in answered
    /\ \A j, k \in inflight : BatchOf(j) = BatchOf(k)
    /\ Cardinality(inflight) <= 5

\* The second batch is in flight, all five of its fetches unanswered.
C1_Witness ==
    /\ pc = "await"
    /\ Cardinality(inflight) = 5
    /\ \A k \in inflight : BatchOf(k) = 1

\* C2: whatever the order the fetches of a batch were answered in, the i-th
\* summary (of the result, and of the list while it grows) is the one built
\* from the i-th reference and carries its id.
C2_InputOrder ==
    /\ \A p \in 1..Len(summaries) :
          /\ summaries[p] = BuildSummary(refs[p], details[refs[p].id])
          /\ summaries[p].id = refs[p].id
    /\ outcome.state = "fulfilled" =>
          /\ Len(outcome.value) = Len(refs)
          /\ outcome.value = summaries

\* A call returned 12 summaries after some fetch was answered ahead of an
\* earlier one of its batch.
C2_Witness ==
    /\ outcome.state = "fulfilled"
    /\ Len(outcome.value) = 12
    /\ reordered

\* C3: n references are fetched in ceil(n/5) consecutive batches, each of 5
\* but a last one of n mod 5 when that is not 0, and n summaries are returned;
\* 12 references make batches of 5, 5 and 2.
C3_Partition ==
    pc = "done" =>
        LET n == Len(refs)
            nb == Len(batches)
        IN  /\ nb = (n + 4) \div 5
            /\ \A b \in 1..nb :
                  /\ Len(batches[b]) = IF b < nb \/ n % 5 = 0 THEN 5 ELSE n % 5
                  /\ \A p \in 1..Len(batches[b]) : batches[b][p] = 5 * (b - 1) + p
            /\ Len(outcome.value) = n
            /\ n = 12 => [b \in 1..nb |-> Len(batches[b])] = <<5, 5, 2>>

\* A call over 12 references has returned.
C3_Witness == pc = "done" /\ Len(refs) = 12 /\ Len(batches) = 3

\* C22: a detail fetch that fails while its batch is awaited fails the call,
\* which is rejected without a summary of the batches before; from then on the
\* call stays failed, its outcome stays, and no further detail fetch and no
\* further batch is issued, while the fetches in flight may still be answered.
C22_FailureStops ==
    [][/\ (pc = "await" /\ answered' # answered /\ nSettled' = nSettled) =>
             (pc' = "failed" /\ outcome' = Rejected /\ outcome'.value = << >>)
       /\ pc = "failed" =>
             /\ pc' = "failed"
             /\ outcome' = outcome /\ outcome.state = "rejected"
             /\ issued' = issued /\ batches' = batches
             /\ summaries' = summaries
             /\ inflight' \subseteq inflight]_vars

\* A fetch of the second batch of three failed: the call is rejected, the five
\* summaries of the first batch are not returned, fetches of the second batch
\* are still in flight, one of them was answered after the failure, and no
\* fetch of the third batch has been issued.
C22_Witness ==
    /\ pc = "failed" /\ outcome = Rejected
    /\ Len(refs) = 12 /\ Len(batches) = 2
    /\ Len(summaries) = 5
    /\ issued = 1..10
    /\ inflight # {}
    /\ Cardinality(answered) >= 7 /\ nSettled = 0

\* C19: the summary of a reference whose detail carries no header list and no
\* id, threadId or snippet of its own has the id of the reference, the
\* threadId and the snippet of the reference where it has them and the empty
\* string where not, and the empty string for from, subject and date.
C19_Fallbacks ==
    \A j \in 1..Len(summaries) :
        LET ref == refs[j]
            data == details[ref.id]
        IN  (~data.headers.defined /\ data.id = Undefined) =>
               summaries[j] =
                   [id       |-> ref.id,
                    threadId |-> IF ref.threadId = Undefined THEN EmptyStr
                                 ELSE ref.threadId,
                    snippet  |-> IF ref.snippet = Undefined THEN EmptyStr
                                 ELSE ref.snippet,
                    from     |-> EmptyStr,
                    subject  |-> EmptyStr,
                    date     |-> EmptyStr]

\* The call returned a summary made for a detail without headers, with the
\* snippet and the threadId of the reference in it.
C19_Witness ==
    /\ pc = "done"
    /\ \E j \in 1..Len(summaries) :
          /\ ~details[refs[j].id].headers.defined
          /\ refs[j].snippet # Undefined
          /\ summaries[j].snippet = refs[j].snippet
          /\ summaries[j].threadId = refs[j].threadId
          /\ summaries[j].from = EmptyStr

(***************************************************************************)
(* Properties of the attachment operations (specification SpecParts).      *)
(***************************************************************************)
\* The paths of the parts of the tree under part (<< >> is part itself), and
\* the part at a path.
RECURSIVE PathsOf(_)
PathsOf(part) ==
    {<< >>} \cup UNION { {<<k>> \o q : q \in PathsOf(part.parts[k])} :
                         k \in 1..Len(part.parts) }

RECURSIVE NodeAt(_, _)
NodeAt(part, path) ==
    IF path = << >> THEN part ELSE NodeAt(part.parts[Head(path)], Tail(path))

FullPaths == IF fullPayload = << >> THEN {} ELSE PathsOf(fullPayload[1])
FullNode(path) == NodeAt(fullPayload[1], path)

\* C12: flattenParts returns as many parts as the tree has and each part of
\* the tree, the root included, at exactly one place; for an absent payload it
\* returns the empty list.
C12_EveryNodeOnce ==
    (partsPc # "idle") =>
        /\ Len(flat) = Cardinality(FullPaths)
        /\ \A q \in FullPaths :
              Cardinality({k \in 1..Len(flat) : flat[k] = FullNode(q)}) = 1
        /\ (fullPayload = << >>) => flat = << >>

\* A tree of three parts on three levels was flattened.
C12_Witness ==
    /\ partsPc = "listed"
    /\ Len(flat) = 3
    /\ <<1, 1>> \in FullPaths
    /\ flat[3].partId = PartIdAt(<<1, 1>>)

\* C13: listAttachments returns one descriptor for each part of the tree with
\* a non-empty filename or an attachment id, made of that part's partId,
\* attachmentId, filename, mimeType and size, and none for any other part.
C13_OnePerAttachment ==
    (partsPc = "listed") =>
        LET carriers == {q \in FullPaths :
                            \/ FullNode(q).filename \notin {Absent, << >>}
                            \/ FullNode(q).attachmentId # Absent}
        IN  /\ Len(descriptors) = Cardinality(carriers)
            /\ \A q \in FullPaths :
                  LET of == {k \in 1..Len(descriptors) :
                                descriptors[k].partId = PartIdAt(q)}
                  IN  IF q \in carriers
                      THEN /\ Cardinality(of) = 1
                           /\ \A k \in of :
                                 /\ descriptors[k].filename = FullNode(q).filename
                                 /\ descriptors[k].attachmentId = FullNode(q).attachmentId
                                 /\ descriptors[k].mimeType = FullNode(q).mimeType
                      ELSE of = {}

\* A container with a part that has a filename and neither data nor an
\* attachment id was listed: one descriptor, for the part.
C13_Witness ==
    /\ partsPc = "listed"
    /\ Len(flat) = 2
    /\ flat[1].mimeType = M_Mixed /\ flat[1].filename = << >>
    /\ Truthy(flat[2].filename) /\ flat[2].data = Absent
    /\ flat[2].attachmentId = Absent
    /\ Len(descriptors) = 1
    /\ descriptors[1].partId = flat[2].partId

\* C20: downloadAttachmentPart rejects with the part-not-found error when no
\* part has the partId asked for, and with the data-unavailable error when the
\* part found has neither data nor an attachment id, in both cases with nothing
\* written and no attachment fetched.  For a part with data it writes the
\* decoded data, once, and fetches nothing.  For a part with an attachment id
\* only it fetches that attachment, once, and writes what the fetch answered,
\* once, when it answers; it never writes twice.
C20_DownloadPart ==
    (partsPc \in {"fetching", "written", "failed"}) =>
        LET found == {q \in FullPaths : FullNode(q).partId = wanted}
        IN  IF found = {}
            THEN /\ partsPc = "failed"
                 /\ dlOutcome = DlRejected("Attachment part not found")
                 /\ writes = << >> /\ fetches = << >>
            ELSE LET part == FullNode(CHOOSE q \in found : TRUE)
                 IN  IF part.data \notin {Absent, << >>}
                     THEN /\ partsPc = "written"
                          /\ writes = <<Utf8Bytes(TextAt(CHOOSE q \in found : TRUE))>>
                          /\ fetches = << >>
                          /\ dlOutcome.state = "fulfilled"
                     ELSE IF part.attachmentId # Absent
                     THEN /\ fetches = <<part.attachmentId>>
                          /\ partsPc = "fetching" => writes = << >>
                          /\ partsPc = "written" =>
                                writes = <<fetched>> /\ dlOutcome.state = "fulfilled"
                          /\ partsPc = "failed" =>
                                /\ writes = << >>
                                /\ dlOutcome = DlRejected("attachments.get failed")
                     ELSE /\ partsPc = "failed"
                          /\ dlOutcome =
                                DlRejected("Part does not contain attachment data")
                          /\ writes = << >> /\ fetches = << >>

\* A part below the root with an attachment id and no data was asked for, its
\* attachment fetched and the bytes fetched written.
C20_Witness ==
    /\ partsPc = "written"
    /\ Len(fetches) = 1
    /\ writes = <<Utf8Bytes(FetchedText)>>
    /\ wanted # << >>
    /\ Len(flat) = 3

(***************************************************************************)
(* Properties of the attachment resolvers (specification SpecResolve).     *)
(***************************************************************************)
\* The bytes the collaborator holds for source k of the call.
SourceBytes(k) ==
    IF rKind = "local" THEN Utf8Bytes(sources[k].path)
    ELSE Utf8Bytes(T_Drive \o sources[k].fileId)

\* Source k of the call cannot be resolved: its file is missing, or its Drive
\* content has none of the shapes toBuffer takes.
Unresolvable(k) ==
    IF rKind = "local" THEN ~world[k].exists
    ELSE world[k].shape \notin {"Buffer", "ArrayBuffer", "view", "string", "Readable"}

\* C14: a call that returns returns one payload for each source, the i-th
\* holding the bytes of the i-th source; the sources are asked about one after
\* the other in list order, and the payloads made so far are those of the
\* first sources, in order.
C14_InputOrder ==
    /\ \A k \in 1..Len(payloads) :
          /\ k <= Len(sources)
          /\ payloads[k].base64Data = toBase64(SourceBytes(k))
    /\ asked = [k \in 1..Len(asked) |-> k]
    /\ Len(asked) - 1 <= Len(payloads) /\ Len(payloads) <= Len(asked)
    /\ (rPc = "done") =>
          /\ rOutcome.state = "fulfilled"
          /\ rOutcome.value = payloads
          /\ Len(payloads) = Len(sources)

\* A Drive call with two sources, the second answering with a view into a
\* larger buffer, returned.
C14_Witness ==
    /\ rPc = "done"
    /\ rKind = "drive"
    /\ Len(sources) = 2
    /\ world[2].shape = "view"
    /\ Len(rOutcome.value) = 2

\* C15: a call with a source that cannot be resolved never returns; the call
\* that fails rejects and hands no payload list on, whatever it had resolved
\* before, and asks about no further source; for a missing local file the error
\* is the not-found error with the path of that source, for Drive content of
\* an unknown shape the unsupported-type error.
C15_AllOrNothing ==
    /\ (rOutcome.state = "fulfilled") => \A k \in 1..Len(sources) : ~Unresolvable(k)
    /\ (rPc = "failed") =>
          /\ rOutcome.state = "rejected"
          /\ rOutcome.value = << >>
          /\ Len(asked) = rIdx
          /\ Len(payloads) = rIdx - 1
    /\ \A k \in 1..Len(sources) :
          (Unresolvable(k) /\ (rIdx > k \/ (rIdx = k /\ rPc \notin {"exists", "meta", "content"})))
              => /\ rPc = "failed"
                 /\ rIdx = k
                 /\ rOutcome.error \in
                       IF rKind = "local" THEN {"Attachment file not found"}
                       ELSE {"Unsupported drive content payload type",
                             "drive.files.get failed"}
                 /\ (rKind = "local") => rOutcome.path = sources[k].path

\* A local call failed at its second source, a missing file, after the first
\* had been resolved.
C15_Witness ==
    /\ rPc = "failed"
    /\ rKind = "local"
    /\ rIdx = 2
    /\ Len(payloads) = 1
    /\ rOutcome.error = "Attachment file not found"
    /\ rOutcome.path = sources[2].path

\* C16: every payload resolved has a filename and a mimeType that are defined
\* and not empty.
C16_NeverEmpty ==
    \A k \in 1..Len(payloads) :
        /\ payloads[k].filename \notin {Absent, << >>}
        /\ payloads[k].mimeType \notin {Absent, << >>}
        /\ \A c \in 1..Len(payloads[k].filename) : payloads[k].filename[c] \in Chars
        /\ \A c \in 1..Len(payloads[k].mimeType) : payloads[k].mimeType[c] \in Chars

\* A local source with empty overrides, a path that ends in "/" and no type
\* reported was resolved.
C16_Witness ==
    /\ rKind = "local"
    /\ \E k \in 1..Len(payloads) :
          /\ sources[k].filename = << >>
          /\ sources[k].mimeType = << >>
          /\ world[k].type = << >>
          /\ sources[k].path[Len(sources[k].path)] = SLASH
          /\ payloads[k].filename = F_AttachmentBin
          /\ payloads[k].mimeType = M_OctetStream

\* The extension of a filename: what follows its last ".", in lower case; the
\* filename has an extension when it holds a ".".
HasExtension(filename) == \E k \in 1..Len(filename) : filename[k] = "."
Extension(filename) ==
    LET dot == CHOOSE k \in 1..Len(filename) :
                   /\ filename[k] = "."
                   /\ \A j \in (k + 1)..Len(filename) : filename[j] # "."
    IN  ToLowerCase(SubSeq(filename, dot + 1, Len(filename)))

InferenceTable ==
    {<<<<"p", "n", "g">>, M_Png>>,
     <<<<"j", "p", "g">>, M_Jpeg>>,
     <<<<"j", "p", "e", "g">>, M_Jpeg>>,
     <<<<"w", "e", "b", "p">>, M_Webp>>,
     <<<<"g", "i", "f">>, M_Gif>>,
     <<<<"p", "d", "f">>, M_Pdf>>,
     <<<<"t", "x", "t">>, S_TextPlain>>,
     <<<<"c", "s", "v">>, M_Csv>>}

\* C17: the mimeType of a payload is the override of its source when that is
\* defined and not empty; if not, the type the collaborator reported when that
\* is; if not, the type the inference table gives for the extension of the
\* payload's filename, and application/octet-stream when it gives none.
C17_MimeTypeOrder ==
    \A k \in 1..Len(payloads) :
        LET override == sources[k].mimeType
            reported == IF rKind = "local" THEN world[k].type ELSE world[k].mimeType
            name == payloads[k].filename
            rows == {row \in InferenceTable :
                        HasExtension(name) /\ row[1] = Extension(name)}
        IN  payloads[k].mimeType =
                IF override \notin {Absent, << >>} THEN override
                ELSE IF reported \notin {Absent, << >>} THEN reported
                ELSE IF rows # {} THEN (CHOOSE row \in rows : TRUE)[2]
                ELSE M_OctetStream

\* A source with an empty mimeType override, no type reported and the filename
\* override "Photo.JPG" was resolved to image/jpeg.
C17_Witness ==
    \E k \in 1..Len(payloads) :
        /\ sources[k].mimeType = << >>
        /\ (IF rKind = "local" THEN world[k].type ELSE world[k].mimeType) = << >>
        /\ payloads[k].filename = <<"P", "h", "o", "t", "o", ".", "J", "P", "G">>
        /\ payloads[k].mimeType = M_Jpeg

(***************************************************************************)
(* Properties of replyToMessage (specification SpecReply).                 *)
(***************************************************************************)
\* The Subject header of the reply sent: the second line of its text.
SentSubject ==
    LET text == Utf8Text(fromBase64Url(sentReply.raw))
        ends == {k \in 1..(Len(text) - 1) : text[k] = CR /\ text[k + 1] = LF}
        first == Least(ends)
        second == Least({k \in ends : k > first})
        line == SubSeq(text, first + 2, second - 1)
    IN  SubSeq(line, Len(S_Subject) + 1, Len(line))

\* The subject begins with the three characters R, e, colon.
BeginsRe(subject) ==
    Len(subject) >= 3 /\ subject[1] = "R" /\ subject[2] = "e" /\ subject[3] = ":"

\* C18: the subject sent is the original subject when that begins with "Re:",
\* and "Re: " followed by the original subject when it does not, as when it
\* begins with "re:" or "Re :"; the subject sent always begins with "Re:", and
\* making the reply subject of the subject sent gives it back.
C18_ReplySubject ==
    (replyPc = "sent") =>
        /\ BeginsRe(original.subject) => SentSubject = original.subject
        /\ ~BeginsRe(original.subject) =>
              SentSubject = <<"R", "e", ":", " ">> \o original.subject
        /\ BeginsRe(SentSubject)
        /\ ReplySubject(SentSubject) = SentSubject
        /\ (\E k \in {3, 4} :
               /\ Len(original.subject) >= k
               /\ SubSeq(original.subject, 1, k) \in {<<"r", "e", ":">>, <<"R", "e", " ", ":">>})
              => Len(SentSubject) = Len(original.subject) + 4

\* A reply to a message with subject "re: Hi" was sent with subject
\* "Re: re: Hi".
C18_Witness ==
    /\ replyPc = "sent"
    /\ original.subject = <<"r", "e", ":", " ", "H", "i">>
    /\ SentSubject = <<"R", "e", ":", " ", "r", "e", ":", " ", "H", "i">>

(***************************************************************************)
(* Properties of the senders with attachments (specification SpecSend).    *)
(***************************************************************************)
\* C23: a sender issues its external call (messages.send, or drafts.create
\* for the draft makers) at most once, and only when the resolver has returned
\* a payload for every attachment of the list, each source asked about in
\* turn; once the resolution of an attachment has failed no external call has
\* been issued and none is issued.
C23_CallAfterResolution ==
    [][/\ Len(calls) <= 1
       /\ calls' # calls =>
             /\ calls = << >> /\ Len(calls') = 1
             /\ calls'[1].api = ExternalCall(call.fn)
             /\ rPc = "done" /\ rOutcome.state = "fulfilled"
             /\ Len(payloads) = Len(sources)
             /\ asked = [k \in 1..Len(sources) |-> k]
       /\ rOutcome.state = "rejected" => (calls = << >> /\ calls' = << >>)]_vars

\* A draft maker returned after one drafts.create, issued with the payloads
\* of the two files of its list.
C23_Witness ==
    /\ callPc = "returned"
    /\ call.fn = "createDraftWithDriveAttachments"
    /\ Len(sources) = 2 /\ Len(payloads) = 2
    /\ Len(calls) = 1 /\ calls[1].api = "users.drafts.create"
    /\ calls[1].raw = last.raw

\* A sender failed on the second of its two files, the first resolved, and
\* issued no call.
C23_FailedWitness ==
    /\ callPc = "failed"
    /\ call.fn = "sendMessageWithAttachments"
    /\ Len(sources) = 2 /\ Len(payloads) = 1
    /\ rOutcome.state = "rejected"
    /\ calls = << >>

\* The lines of a text.
LinesOf(text) ==
    LET lengths == LineLengths(text)
        StartOf(q) == 1 + 2 * (q - 1)
                      + Len(Concat([r \in 1..(q - 1) |-> [c \in 1..lengths[r] |-> "x"]]))
    IN  [q \in 1..Len(lengths) |->
            SubSeq(text, StartOf(q), StartOf(q) + lengths[q] - 1)]

\* C24: in the message a sender hands to Gmail, the header block of the part
\* of every resolved attachment is three lines, a Content-Type, a
\* Content-Disposition and a Content-Transfer-Encoding line, whatever the
\* filename and the MIME type of the attachment hold.
C24_ThreeHeaderLines ==
    (callPc = "calling" /\ Multipart) =>
        \A a \in 1..Len(last.attachments) :
            LET lines == LinesOf(HeaderBlock(AttachmentPartsBuilt[a]))
            IN  /\ Len(lines) = 3
                /\ StartsWith(lines[1], S_ContentType)
                /\ StartsWith(lines[2], S_Disposition)
                /\ lines[3] = S_EncodingBase64

\* The header block of the part of an attachment whose MIME type holds no line
\* break is the three lines, whatever its filename holds.
C24_WithPlainMimeType ==
    (callPc = "calling" /\ Multipart) =>
        \A a \in 1..Len(last.attachments) :
            LET lines == LinesOf(HeaderBlock(AttachmentPartsBuilt[a]))
                type == last.attachments[a].mimeType
            IN  (\A c \in 1..Len(type) : type[c] \notin {CR, LF}) =>
                    /\ Len(lines) = 3
                    /\ StartsWith(lines[1], S_ContentType)
                    /\ StartsWith(lines[2], S_Disposition)
                    /\ lines[3] = S_EncodingBase64

\* A sender handed Gmail a message with the part of an attachment whose
\* filename, as the caller gave it, holds a line break.
C24_FilenameWitness ==
    /\ callPc = "calling" /\ Multipart
    /\ \E a \in 1..Len(last.attachments) :
          /\ last.attachments[a].filename = F_Inject
          /\ last.attachments[a].mimeType # M_Inject

====
